---- MODULE Spec2Model ----
(***************************************************************************)
(* Verification model of the fd_agent backend: the gap reporter            *)
(* (agents/gap_reporter.py), the structured store                          *)
(* (memory/structured_store.py), the memory agent's analysis pipeline      *)
(* (agents/memory_agent.py), the orchestrator (agents/orchestrator.py),    *)
(* the extractors of the two analyzers (analyzers/flutter_analyzer.py,     *)
(* analyzers/python_analyzer.py), the analyzer agent's result cache        *)
(* (agents/analyzer_agent.py) and the two API middlewares                  *)
(* (api/middleware/auth.py, api/middleware/rate_limit.py).                 *)
(*                                                                         *)
(* Strings that the code inspects character by character (API paths) are   *)
(* sequences of one-character strings; strings that the code only compares *)
(* or upper-cases (HTTP methods, names, file paths) are TLA+ strings.      *)
(***************************************************************************)
EXTENDS Integers, Sequences, FiniteSets, TLC

VARIABLES
    \* ---- compute_gap_report (agents/gap_reporter.py) ----
    api_contracts,                  \* argument: list of contract objects
    backend_endpoints,              \* argument: list of endpoint objects
    flutter_calls,                  \* argument: list of UI call dicts
    backend_by_path,                \* local dict: normalized path -> set of methods
    missing_backend,                \* result list
    method_mismatches,              \* result list
    contracts_not_used_in_flutter,  \* result list
    backend_without_contract,       \* result list
    gap_pc,                         \* position in compute_gap_report
    gap_i,                          \* number of loop iterations completed
    \* ---- StructuredStore (memory/structured_store.py): the SQLite tables ----
    code_entities,                  \* rows of table code_entities
    relationships,                  \* rows of table relationships
    api_mappings,                   \* rows of table api_mappings
    now,                            \* the clock read by datetime.now() / CURRENT_TIMESTAMP
    store_calls,                    \* store write calls made so far by the caller
    last_call,                      \* the caller's most recent write call, its argument,
                                    \* and whether it repeated the call before it
    \* ---- MemoryAgent.store_code_analysis (agents/memory_agent.py) ----
    hash_seed,                      \* the process's string-hash randomization
    analysis_results,               \* argument: {'flutter': {...}, 'python': {...}}
    pl_pc,                          \* position in store_code_analysis
    pl_i,                           \* index of the outer loop
    pl_j,                           \* index of the inner loop (endpoints)
    \* ---- concurrent StructuredStore.add_entity coroutines ----
    w_pc,                           \* position of each coroutine in add_entity
    w_entity,                       \* each coroutine's argument
    w_stamp,                        \* the datetime.now() each coroutine has evaluated
    \* ---- repeated analysis runs ----
    run,                            \* which run of the pipeline on the same source this is
    \* ---- AgentOrchestrator.analyze_codebase (agents/orchestrator.py) ----
    flutter_results,                \* result of _analyze_flutter_project
    python_results,                 \* result of _analyze_python_project
    orc_pc,                         \* position in analyze_codebase
    orc_i,                          \* index of the outer loop
    orc_j,                          \* index of the inner loop (endpoints)
    failed_writes,                  \* store writes that returned False (the value is discarded)
    analysis_summary,               \* the dict analyze_codebase returns
    \* ---- FlutterAnalyzer / PythonAnalyzer.analyze_project ----
    batch_project,                  \* the project: its analyzer, manifest and source files
    batch_results,                  \* the aggregated results dict
    batch_pc,                       \* position in analyze_project
    batch_i,                        \* number of files handled
    \* ---- the extractors applied to one source ----
    ex_input,                       \* the parsed tree or the source text
    ex_output,                      \* the list of records returned
    ex_pc,                          \* whether the extractor has returned
    \* ---- AgentOrchestrator.initialize (agents/orchestrator.py) ----
    initialized,                    \* self.initialized
    init_db_calls,                  \* how many times StructuredStore.init_db was invoked
    init_pc,                        \* position of each caller in initialize
    \* ---- AnalyzerAgent.analyze_project_incremental (agents/analyzer_agent.py) ----
    analysis_cache,                 \* self.analysis_cache: project path -> results
    last_analysis_time,             \* self.last_analysis_time: project path -> datetime
    clock,                          \* datetime.now(), in seconds
    full_runs,                      \* how many times analyze_project_full has run
    an_call,                        \* the most recent call: its arguments and what it did
    \* ---- RateLimitMiddleware (api/middleware/rate_limit.py) ----
    requests,                       \* self.requests: client ip -> list of datetimes
    handled,                        \* the requests passed to call_next: client ip and time
    rl_response                     \* the most recent request: its client ip and status

gapVars == <<api_contracts, backend_endpoints, flutter_calls, backend_by_path,
             missing_backend, method_mismatches, contracts_not_used_in_flutter,
             backend_without_contract, gap_pc, gap_i>>

storeVars == <<code_entities, relationships, api_mappings, now, store_calls, last_call>>

pipeVars == <<hash_seed, analysis_results, pl_pc, pl_i, pl_j>>

writerVars == <<w_pc, w_entity, w_stamp>>

\* the components other than the gap reporter, the store's caller and the
\* memory agent's pipeline
orcVars == <<flutter_results, python_results, orc_pc, orc_i, orc_j, failed_writes,
             analysis_summary>>

batchVars == <<batch_project, batch_results, batch_pc, batch_i>>

extractVars == <<ex_input, ex_output, ex_pc>>

\* the long-lived objects of the service: the orchestrator's initialization
cacheVars == <<analysis_cache, last_analysis_time, clock, full_runs, an_call>>

rateVars == <<requests, handled, rl_response>>

svcVars == <<initialized, init_db_calls, init_pc, cacheVars, rateVars>>

\* what the concurrent add_entity coroutines leave alone
besideWriters == <<run, orcVars, batchVars, extractVars, svcVars, gapVars, pipeVars>>

extraVars == <<writerVars, run, orcVars, batchVars, extractVars, svcVars>>

vars == <<gapVars, storeVars, pipeVars, extraVars>>

(***************************************************************************)
(* Bounds of the model.                                                    *)
(***************************************************************************)
MaxContracts == 2
MaxEndpoints == 2
MaxCalls == 1
MaxClock == 2
MaxStoreCalls == 3
MaxApiCalls == 2
MaxRoutes == 2

(***************************************************************************)
(* String helpers: str.lower, str.upper, str.strip('/'), `in`.             *)
(***************************************************************************)
LowerChar(c) ==
    CASE c = "A" -> "a"
      [] c = "B" -> "b"
      [] c = "C" -> "c"
      [] OTHER -> c

lower(s) == [k \in 1..Len(s) |-> LowerChar(s[k])]

RECURSIVE lstrip_slash(_)
lstrip_slash(s) ==
    IF s # <<>> /\ Head(s) = "/" THEN lstrip_slash(Tail(s)) ELSE s

RECURSIVE rstrip_slash(_)
rstrip_slash(s) ==
    IF s # <<>> /\ s[Len(s)] = "/" THEN rstrip_slash(SubSeq(s, 1, Len(s) - 1)) ELSE s

strip_slash(s) == rstrip_slash(lstrip_slash(s))

\* Python's `a in b` on strings: a is a contiguous substring of b.
str_in(a, b) ==
    \E k \in 0..(Len(b) - Len(a)) : SubSeq(b, k + 1, k + Len(a)) = a

upper(m) ==
    CASE m = "get" -> "GET"
      [] m = "post" -> "POST"
      [] m = "put" -> "PUT"
      [] m = "delete" -> "DELETE"
      [] m = "patch" -> "PATCH"
      [] OTHER -> m

\* Rank of the upper-cased methods in Python's string order (used by sorted()).
MethodRank(m) ==
    CASE m = "" -> 0
      [] m = "DELETE" -> 1
      [] m = "GET" -> 2
      [] m = "POST" -> 3
      [] m = "PUT" -> 4
      [] OTHER -> 5

sorted(S) ==
    CHOOSE q \in [1..Cardinality(S) -> S] :
        /\ \A a, b \in 1..Cardinality(S) : a < b => MethodRank(q[a]) < MethodRank(q[b])

(***************************************************************************)
(* gap_reporter.py                                                         *)
(***************************************************************************)
EmptyDict == [path |-> <<>>, method |-> ""]

\* _normalize_path(path)
normalize_path(path) == lower(strip_slash(path))

\* _paths_match(a, b)
ExactPathsMatch(a, b) == normalize_path(a) = normalize_path(b)
\* containment tested in one direction only
paths_match_one_way(a, b) ==
    normalize_path(a) = normalize_path(b) \/ str_in(normalize_path(a), normalize_path(b))

paths_match(a, b) ==
    LET a_norm == normalize_path(a)
        b_norm == normalize_path(b)
    IN  a_norm = b_norm \/ str_in(a_norm, b_norm) \/ str_in(b_norm, a_norm)

\* line 47: contract.metadata if hasattr(contract, "metadata")
\*          else getattr(contract, "meta", {})
contract_meta(contract) ==
    IF contract.attr \in {"metadata", "meta"}
    THEN [path |-> contract.path, method |-> contract.method]
    ELSE EmptyDict

\* lines 89-90: contract.metadata if hasattr(contract, "metadata") else {}
contract_metadata_or_empty(contract) ==
    IF contract.attr = "metadata"
    THEN [path |-> contract.path, method |-> contract.method]
    ELSE EmptyDict

\* lines 52-59: the backend endpoint matching the contract by path and method
match_exists(path, method) ==
    \E k \in 1..Len(backend_endpoints) :
        /\ paths_match(path, backend_endpoints[k].path)
        /\ method = upper(backend_endpoints[k].method)

\* lines 60-62: no match, but the normalized path is a key of the index
reports_mismatch(path, method) ==
    /\ ~match_exists(path, method)
    /\ normalize_path(path) \in DOMAIN backend_by_path

\* lines 60 and 69: no match, and the normalized path is no key of the index
MissingWithoutElse(path, method) == ~match_exists(path, method)
reports_missing(path, method) ==
    /\ ~match_exists(path, method)
    /\ normalize_path(path) \notin DOMAIN backend_by_path

\* line 77: used = any(_paths_match(path, call.get("endpoint", "")) ...)
UsedOnlyWhenEqual(path) ==
    \E k \in 1..Len(flutter_calls) : ExactPathsMatch(path, flutter_calls[k].endpoint)
used(path) ==
    \E k \in 1..Len(flutter_calls) : paths_match(path, flutter_calls[k].endpoint)

\* lines 88-92: has_contract for a backend endpoint
has_contract(ep_path, ep_method) ==
    \E k \in 1..Len(api_contracts) :
        LET m == contract_metadata_or_empty(api_contracts[k])
        IN  /\ paths_match(m.path, ep_path)
            /\ upper(m.method) = ep_method

\* lines 40-44: the index of backend methods by normalized path
backend_index ==
    LET keys == {normalize_path(backend_endpoints[k].path) :
                    k \in 1..Len(backend_endpoints)}
    IN  [p \in keys |->
            {upper(backend_endpoints[k].method) :
                k \in {j \in 1..Len(backend_endpoints) :
                          normalize_path(backend_endpoints[j].path) = p}}]

(***************************************************************************)
(* Inputs of compute_gap_report.                                           *)
(***************************************************************************)
P_a == <<"/", "a">>
P_A == <<"/", "A", "/">>
P_ba == <<"/", "b", "/", "a">>
P_c == <<"/", "c">>
P_slash == <<"/">>

ContractPool ==
    { [attr |-> "metadata", path |-> P_a, method |-> "GET"],
      [attr |-> "metadata", path |-> P_A, method |-> "post"],
      [attr |-> "meta", path |-> P_a, method |-> "GET"],
      [attr |-> "metadata", path |-> P_c, method |-> "PUT"],
      [attr |-> "metadata", path |-> P_slash, method |-> "GET"] }

EndpointPool ==
    { [path |-> P_a, method |-> "GET"],
      [path |-> P_A, method |-> "delete"],
      [path |-> P_ba, method |-> "GET"] }

CallPool ==
    { [endpoint |-> P_ba], [endpoint |-> P_c] }

SeqsUpTo(S, n) == UNION {[1..k -> S] : k \in 0..n}

(***************************************************************************)
(* The value of each component's variables while another component runs.   *)
(***************************************************************************)
GapIdle ==
    /\ api_contracts = << >>
    /\ backend_endpoints = << >>
    /\ flutter_calls = << >>
    /\ backend_by_path = << >>
    /\ missing_backend = << >>
    /\ method_mismatches = << >>
    /\ contracts_not_used_in_flutter = << >>
    /\ backend_without_contract = << >>
    /\ gap_pc = "idle"
    /\ gap_i = 0

\* no write call made yet
NoCall == [op |-> "none", arg |-> <<>>, repeat |-> FALSE]

\* the tables as init_db leaves them in a fresh database
StoreIdle ==
    /\ code_entities = {}
    /\ relationships = {}
    /\ api_mappings = {}
    /\ now = 0
    /\ store_calls = 0
    /\ last_call = NoCall

PipeIdle ==
    /\ hash_seed = 1
    /\ analysis_results = [flutter |-> [widgets |-> << >>, blocs |-> << >>, api_calls |-> << >>],
                           python |-> [endpoints |-> << >>, models |-> << >>]]
    /\ pl_pc = "idle"
    /\ pl_i = 0
    /\ pl_j = 0

Writers == {1, 2}

WritersIdle ==
    /\ w_pc = [w \in Writers |-> "idle"]
    /\ w_entity = [w \in Writers |-> NoCall.arg]
    /\ w_stamp = [w \in Writers |-> 0]

OrcIdle ==
    /\ flutter_results = << >>
    /\ python_results = << >>
    /\ orc_pc = "idle"
    /\ orc_i = 0
    /\ orc_j = 0
    /\ failed_writes = 0
    /\ analysis_summary = << >>

BatchIdle ==
    /\ batch_project = << >>
    /\ batch_results = << >>
    /\ batch_pc = "idle"
    /\ batch_i = 0

ExtractIdle ==
    /\ ex_input = << >>
    /\ ex_output = << >>
    /\ ex_pc = "idle"

\* the callers of AgentOrchestrator.initialize
Callers == {1, 2, 3, 4}

InitializeIdle ==
    /\ initialized = FALSE
    /\ init_db_calls = 0
    /\ init_pc = [c \in Callers |-> "idle"]

NoAnalysisCall == [project_path |-> "", force_refresh |-> FALSE,
                   age |-> -1, full |-> FALSE, returned |-> 0]

CacheIdle ==
    /\ analysis_cache = << >>
    /\ last_analysis_time = << >>
    /\ clock = 0
    /\ full_runs = 0
    /\ an_call = NoAnalysisCall

\* the keys of self.requests: a client's host, or "unknown" (line 23)
ClientIps == {"10.0.0.1", "unknown"}

RateIdle ==
    /\ requests = [ip \in ClientIps |-> << >>]
    /\ handled = << >>
    /\ rl_response = [client_ip |-> "", status_code |-> 0]

SvcIdle ==
    /\ InitializeIdle
    /\ CacheIdle
    /\ RateIdle

ExtraIdle ==
    /\ WritersIdle
    /\ run = 1
    /\ OrcIdle
    /\ BatchIdle
    /\ ExtractIdle
    /\ SvcIdle

GapInit ==
    /\ api_contracts \in SeqsUpTo(ContractPool, MaxContracts)
    /\ backend_endpoints \in SeqsUpTo(EndpointPool, MaxEndpoints)
    /\ flutter_calls \in SeqsUpTo(CallPool, MaxCalls)
    /\ backend_by_path = << >>
    /\ missing_backend = << >>
    /\ method_mismatches = << >>
    /\ contracts_not_used_in_flutter = << >>
    /\ backend_without_contract = << >>
    /\ gap_pc = "index"
    /\ gap_i = 0
    /\ StoreIdle
    /\ PipeIdle
    /\ ExtraIdle

\* lines 39-44
BuildIndex ==
    /\ gap_pc = "index"
    /\ backend_by_path' = backend_index
    /\ gap_pc' = "contracts"
    /\ UNCHANGED <<api_contracts, backend_endpoints, flutter_calls, missing_backend,
                   method_mismatches, contracts_not_used_in_flutter,
                   backend_without_contract, gap_i>>
    /\ UNCHANGED <<storeVars, pipeVars, extraVars>>

\* lines 46-83: one iteration of `for contract in api_contracts`
ContractStep ==
    /\ gap_pc = "contracts"
    /\ gap_i < Len(api_contracts)
    /\ LET contract == api_contracts[gap_i + 1]
           meta == contract_meta(contract)
           path == meta.path
           method == upper(meta.method)
       IN  /\ IF reports_mismatch(path, method)
              THEN method_mismatches' = Append(method_mismatches,
                       [path |-> path, contract_method |-> method,
                        backend_methods |-> sorted(backend_by_path[normalize_path(path)]),
                        reason |-> "Method differs between contract and backend"])
              ELSE UNCHANGED method_mismatches
           /\ IF reports_missing(path, method)
              THEN missing_backend' = Append(missing_backend,
                       [path |-> path, method |-> method,
                        reason |-> "No matching FastAPI endpoint"])
              ELSE UNCHANGED missing_backend
           /\ IF ~used(path)
              THEN contracts_not_used_in_flutter' = Append(contracts_not_used_in_flutter,
                       [path |-> path, method |-> method,
                        reason |-> "Not called from Flutter"])
              ELSE UNCHANGED contracts_not_used_in_flutter
    /\ gap_i' = gap_i + 1
    /\ UNCHANGED <<api_contracts, backend_endpoints, flutter_calls, backend_by_path,
                   backend_without_contract, gap_pc>>
    /\ UNCHANGED <<storeVars, pipeVars, extraVars>>

\* line 85: the contract loop is exhausted, the endpoint loop starts
ContractsDone ==
    /\ gap_pc = "contracts"
    /\ gap_i = Len(api_contracts)
    /\ gap_pc' = "backend"
    /\ gap_i' = 0
    /\ UNCHANGED <<api_contracts, backend_endpoints, flutter_calls, backend_by_path,
                   missing_backend, method_mismatches, contracts_not_used_in_flutter,
                   backend_without_contract>>
    /\ UNCHANGED <<storeVars, pipeVars, extraVars>>

\* lines 85-98: one iteration of `for ep in backend_endpoints`
BackendStep ==
    /\ gap_pc = "backend"
    /\ gap_i < Len(backend_endpoints)
    /\ LET ep == backend_endpoints[gap_i + 1]
           ep_path == ep.path
           ep_method == upper(ep.method)
       IN  IF ~has_contract(ep_path, ep_method)
           THEN backend_without_contract' = Append(backend_without_contract,
                    [path |-> ep_path, method |-> ep_method,
                     reason |-> "Endpoint not covered by contract"])
           ELSE UNCHANGED backend_without_contract
    /\ gap_i' = gap_i + 1
    /\ UNCHANGED <<api_contracts, backend_endpoints, flutter_calls, backend_by_path,
                   missing_backend, method_mismatches, contracts_not_used_in_flutter,
                   gap_pc>>
    /\ UNCHANGED <<storeVars, pipeVars, extraVars>>

\* lines 100-105: return the four lists
GapReturn ==
    /\ gap_pc = "backend"
    /\ gap_i = Len(backend_endpoints)
    /\ gap_pc' = "done"
    /\ UNCHANGED <<api_contracts, backend_endpoints, flutter_calls, backend_by_path,
                   missing_backend, method_mismatches, contracts_not_used_in_flutter,
                   backend_without_contract, gap_i>>
    /\ UNCHANGED <<storeVars, pipeVars, extraVars>>

GapNext == BuildIndex \/ ContractStep \/ ContractsDone \/ BackendStep \/ GapReturn

SpecGap == GapInit /\ [][GapNext]_vars

(***************************************************************************)
(* The gap reporter's rules as the specification states them, written      *)
(* independently of the operators above.                                   *)
(***************************************************************************)
RuleNorm(p) ==
    LET isSlash(k) == p[k] = "/"
        inner == {k \in 1..Len(p) : ~isSlash(k)}
    IN  IF inner = {} THEN << >>
        ELSE LET lo == CHOOSE k \in inner : \A j \in inner : k <= j
                 hi == CHOOSE k \in inner : \A j \in inner : j <= k
             IN  [k \in 1..(hi - lo + 1) |-> LowerChar(p[lo + k - 1])]

RuleContains(a, b) == \E k \in 0..(Len(b) - Len(a)) : \A j \in 1..Len(a) : b[k + j] = a[j]

\* the substring-containment rule of sections 4.4 and 4.5
RulePathsMatch(a, b) ==
    RuleContains(RuleNorm(a), RuleNorm(b)) \/ RuleContains(RuleNorm(b), RuleNorm(a))

\* contracts whose loop iteration has completed
ContractsProcessed ==
    CASE gap_pc = "index" -> 0
      [] gap_pc = "contracts" -> gap_i
      [] OTHER -> Len(api_contracts)

\* endpoints whose loop iteration has completed
EndpointsProcessed ==
    CASE gap_pc = "backend" -> gap_i
      [] gap_pc = "done" -> Len(backend_endpoints)
      [] OTHER -> 0

CPath(i) == contract_meta(api_contracts[i]).path
CMethod(i) == upper(contract_meta(api_contracts[i]).method)

\* processed contracts with the path and method of contract i
SameContracts(i) ==
    {j \in 1..ContractsProcessed : CPath(j) = CPath(i) /\ CMethod(j) = CMethod(i)}

\* some backend route path-matches contract i and has its method
HasMatch(i) ==
    \E k \in 1..Len(backend_endpoints) :
        /\ RulePathsMatch(CPath(i), backend_endpoints[k].path)
        /\ CMethod(i) = upper(backend_endpoints[k].method)

\* some backend route path-matches contract i, whatever its method
PathMatched(i) ==
    \E k \in 1..Len(backend_endpoints) :
        RulePathsMatch(CPath(i), backend_endpoints[k].path)

\* some UI call path-matches contract i
UiMatched(i) ==
    \E k \in 1..Len(flutter_calls) : RulePathsMatch(CPath(i), flutter_calls[k].endpoint)

\* entries of each result list that carry contract i's path and method
MissingEntries(i) ==
    Cardinality({k \in 1..Len(missing_backend) :
        missing_backend[k].path = CPath(i) /\ missing_backend[k].method = CMethod(i)})

MismatchEntries(i) ==
    Cardinality({k \in 1..Len(method_mismatches) :
        /\ method_mismatches[k].path = CPath(i)
        /\ method_mismatches[k].contract_method = CMethod(i)})

NotUsedEntries(i) ==
    Cardinality({k \in 1..Len(contracts_not_used_in_flutter) :
        /\ contracts_not_used_in_flutter[k].path = CPath(i)
        /\ contracts_not_used_in_flutter[k].method = CMethod(i)})

\* entries of backend_without_contract that carry endpoint k's path and method
WithoutContractEntries(k) ==
    Cardinality({j \in 1..Len(backend_without_contract) :
        /\ backend_without_contract[j].path = backend_endpoints[k].path
        /\ backend_without_contract[j].method = upper(backend_endpoints[k].method)})

\* C1: every processed contract is in exactly one of has-match, missing and
\* method-mismatch: the contracts with its path and method are listed once
\* each in exactly one of the two lists, or have a match and are in neither;
\* so the two lists together are never longer than the contract list.
C1_Partition ==
    /\ Len(missing_backend) + Len(method_mismatches) <= Len(api_contracts)
    /\ Len(missing_backend) + Len(method_mismatches)
         + Cardinality({i \in 1..ContractsProcessed : HasMatch(i)}) = ContractsProcessed
    /\ \A i \in 1..ContractsProcessed :
          LET n == Cardinality(SameContracts(i))
          IN  \/ HasMatch(i) /\ MissingEntries(i) = 0 /\ MismatchEntries(i) = 0
              \/ ~HasMatch(i) /\ MissingEntries(i) = n /\ MismatchEntries(i) = 0
              \/ ~HasMatch(i) /\ MissingEntries(i) = 0 /\ MismatchEntries(i) = n

\* C1 witness: a finished report with one missing and one mismatched contract.
C1_Witness ==
    /\ gap_pc = "done"
    /\ Len(api_contracts) = 2
    /\ Len(missing_backend) = 1
    /\ Len(method_mismatches) = 1

\* C2: a processed contract whose path is matched by some backend route under
\* the substring rule, but by none with its method, is in method_mismatches
\* and not in missing_backend_endpoints.
C2_MismatchOnAnyPathMatch ==
    \A i \in 1..ContractsProcessed :
        (PathMatched(i) /\ ~HasMatch(i)) =>
            (MismatchEntries(i) >= 1 /\ MissingEntries(i) = 0)

\* C3: a processed contract is in missing_backend_endpoints if and only if no
\* backend route's path matches its path under the substring rule.
C3_MissingIffNoPathMatch ==
    \A i \in 1..ContractsProcessed :
        (MissingEntries(i) >= 1) <=> ~PathMatched(i)

\* C4: a processed contract is in contracts_not_used_in_flutter if and only
\* if no UI call's endpoint matches its path under the substring rule,
\* whatever its backend class.
C4_NotUsedIffNoUiMatch ==
    \A i \in 1..ContractsProcessed :
        NotUsedEntries(i) = IF UiMatched(i) THEN 0 ELSE Cardinality(SameContracts(i))

\* C4 witness: a finished report over a non-empty UI call list in which a
\* contract with a backend match is listed as unused and a contract without
\* one is not.
C4_Witness ==
    /\ gap_pc = "done"
    /\ flutter_calls # << >>
    /\ \E i, j \in 1..Len(api_contracts) :
          /\ HasMatch(i) /\ NotUsedEntries(i) = 1
          /\ ~HasMatch(j) /\ NotUsedEntries(j) = 0

\* C5: a processed backend route is in backend_without_contract if and only
\* if no contract path-matches it with the route's method.
C5_WithoutContractIffUncovered ==
    \A k \in 1..EndpointsProcessed :
        (WithoutContractEntries(k) >= 1) <=>
            ~(\E i \in 1..Len(api_contracts) :
                /\ RulePathsMatch(CPath(i), backend_endpoints[k].path)
                /\ CMethod(i) = upper(backend_endpoints[k].method))

(***************************************************************************)
(* Python values and json.dumps.  A Python value is a record [t, v] with   *)
(* t its type; a dict with string keys is a function from its keys.  The   *)
(* JSON text json.dumps writes is modelled by the JSON value it denotes:   *)
(* lists and tuples both become arrays, None becomes null.                 *)
(***************************************************************************)
PyInt(n) == [t |-> "int", v |-> n]
PyStr(x) == [t |-> "str", v |-> x]
PyFloat(x) == [t |-> "float", v |-> x]
PyNone == [t |-> "NoneType", v |-> "None"]
PyList(q) == [t |-> "list", v |-> q]
PyTuple(q) == [t |-> "tuple", v |-> q]
PySet(q) == [t |-> "set", v |-> q]
PyStrList(q) == PyList([k \in DOMAIN q |-> PyStr(q[k])])

RECURSIVE json_serializable(_)
json_serializable(pv) ==
    CASE pv.t \in {"list", "tuple"} -> \A k \in DOMAIN pv.v : json_serializable(pv.v[k])
      [] pv.t \in {"int", "str", "float", "NoneType"} -> TRUE
      [] OTHER -> FALSE

RECURSIVE json_value(_)
json_value(pv) ==
    CASE pv.t \in {"list", "tuple"} ->
             [t |-> "array", v |-> [k \in DOMAIN pv.v |-> json_value(pv.v[k])]]
      [] pv.t = "NoneType" -> [t |-> "null", v |-> "null"]
      [] pv.t = "str" -> [t |-> "string", v |-> pv.v]
      [] OTHER -> pv

\* json.dumps(d) succeeds (raises no TypeError)
dumps_ok(d) == \A k \in DOMAIN d : json_serializable(d[k])

\* json.dumps(d) for a dict d
json_dumps(d) == [json |-> [k \in DOMAIN d |-> json_value(d[k])]]

\* the Python value json.loads builds for a JSON value
RECURSIVE python_value(_)
python_value(jv) ==
    CASE jv.t = "array" ->
             [t |-> "list", v |-> [k \in DOMAIN jv.v |-> python_value(jv.v[k])]]
      [] jv.t = "null" -> [t |-> "NoneType", v |-> "None"]
      [] jv.t = "string" -> [t |-> "str", v |-> jv.v]
      [] OTHER -> jv

\* json.loads('{}'), the fallback of line 148 for an empty column
loads_empty_object(text) == << >>

\* json.loads(text) for the text of a JSON object
json_loads(text) == [k \in DOMAIN text.json |-> python_value(text.json[k])]

(***************************************************************************)
(* structured_store.py                                                     *)
(***************************************************************************)
\* @dataclass CodeEntity
CodeEntity(id, type, name, file_path, language, metadata, created_at, updated_at) ==
    [id |-> id, type |-> type, name |-> name, file_path |-> file_path,
     language |-> language, metadata |-> metadata,
     created_at |-> created_at, updated_at |-> updated_at]

\* @dataclass Relationship
Relationship(id, source_entity_id, target_entity_id, relationship_type, metadata, created_at) ==
    [id |-> id, source_entity_id |-> source_entity_id,
     target_entity_id |-> target_entity_id, relationship_type |-> relationship_type,
     metadata |-> metadata, created_at |-> created_at]

\* INSERT OR REPLACE on a table whose PRIMARY KEY is id: the row with the
\* new row's id, if any, is deleted and the new row is inserted.
InsertKeepingOld(table, row) == table \cup {row}
InsertOrReplace(table, row) == {r \in table : r.id # row.id} \cup {row}

\* add_entity, lines 101-108: the row written.  created_at is not among the
\* inserted columns, so it takes its DEFAULT CURRENT_TIMESTAMP; updated_at is
\* datetime.now(); entity.created_at and entity.updated_at are not read.
entity_row(entity) ==
    [id |-> entity.id, type |-> entity.type, name |-> entity.name,
     file_path |-> entity.file_path, language |-> entity.language,
     metadata |-> json_dumps(entity.metadata),
     created_at |-> now, updated_at |-> now]

\* add_relationship, lines 119-127: created_at takes its DEFAULT.
relationship_row(relationship) ==
    [id |-> relationship.id, source_entity_id |-> relationship.source_entity_id,
     target_entity_id |-> relationship.target_entity_id,
     relationship_type |-> relationship.relationship_type,
     metadata |-> json_dumps(relationship.metadata),
     created_at |-> now]

\* add_api_mapping, lines 188-193
api_mapping_row(flutter_widget_id, python_endpoint_id, mapping_type, metadata) ==
    [id |-> flutter_widget_id \o "_" \o python_endpoint_id,
     flutter_widget_id |-> flutter_widget_id,
     python_endpoint_id |-> python_endpoint_id,
     mapping_type |-> mapping_type,
     metadata |-> json_dumps(metadata),
     created_at |-> now]

\* add_entity, lines 97-113: the table after the call; an exception (here a
\* TypeError of json.dumps) is caught, nothing is written and False returned.
\* The database does not enforce the declared FOREIGN KEYs (SQLite's
\* foreign_keys pragma is off unless a connection turns it on; none does).
add_entity(entity) ==
    code_entities' = IF dumps_ok(entity.metadata)
                     THEN InsertOrReplace(code_entities, entity_row(entity))
                     ELSE code_entities

\* add_relationship, lines 115-132
add_relationship(relationship) ==
    relationships' = IF dumps_ok(relationship.metadata)
                     THEN InsertOrReplace(relationships, relationship_row(relationship))
                     ELSE relationships

\* add_api_mapping, lines 184-198
add_api_mapping(flutter_widget_id, python_endpoint_id, mapping_type, metadata) ==
    api_mappings' = IF dumps_ok(metadata)
                    THEN InsertOrReplace(api_mappings,
                             api_mapping_row(flutter_widget_id, python_endpoint_id,
                                             mapping_type, metadata))
                    ELSE api_mappings

(***************************************************************************)
(* Calls on the store by an arbitrary caller.                              *)
(***************************************************************************)
M_stateless == [widget_type |-> PyStr("StatelessWidget"),
                dependencies |-> PyStrList(<<"Text">>)]
M_stateful == [widget_type |-> PyStr("StatefulWidget")]
M_span == [span |-> PyTuple(<<PyInt(1), PyInt(9)>>), return_type |-> PyNone]
M_unserializable == [dependencies |-> PySet({"Text"})]
M_calls == [confidence |-> PyFloat("0.8")]

\* the entities a caller passes: it sets created_at and updated_at to
\* datetime.now() when it builds the dataclass
EntityInputs ==
    { CodeEntity("e1", "widget", "Home", "lib/a.dart", "dart", M_stateless, now, now),
      CodeEntity("e1", "widget", "Home", "lib/a.dart", "dart", M_stateful, now, now),
      CodeEntity("e2", "api_endpoint", "get_a", "api/x.py", "python", M_span, now, now),
      CodeEntity("e2", "api_endpoint", "get_a", "api/x.py", "python", M_unserializable, now, now) }

RelationshipInputs ==
    { Relationship("r1", "e1", "e2", "calls", M_calls, now),
      Relationship("r1", "e2", "e1", "uses", M_stateful, now),
      Relationship("r2", "e1", "e3", "calls", M_calls, now) }

WidgetIdInputs == {"w", "w_x"}
EndpointIdInputs == {"e", "x_e"}

StoreInit ==
    /\ StoreIdle
    /\ GapIdle
    /\ PipeIdle
    /\ ExtraIdle

\* a record without the timestamps of the moment it was built
record_fields(r) == [k \in DOMAIN r \ {"created_at", "updated_at"} |-> r[k]]

\* the caller's call, noted together with whether it repeats the previous one
noted_call(op, arg) ==
    [op |-> op, arg |-> arg,
     repeat |-> last_call.op = op /\ record_fields(last_call.arg) = record_fields(arg)]

\* time passes
Tick ==
    /\ now < MaxClock
    /\ now' = now + 1
    /\ UNCHANGED <<code_entities, relationships, api_mappings, store_calls, last_call>>
    /\ UNCHANGED <<gapVars, pipeVars, extraVars>>

\* a call of StructuredStore.add_entity
CallAddEntity(entity) ==
    /\ store_calls < MaxStoreCalls
    /\ add_entity(entity)
    /\ store_calls' = store_calls + 1
    /\ last_call' = noted_call("add_entity", entity)
    /\ UNCHANGED <<relationships, api_mappings, now>>
    /\ UNCHANGED <<gapVars, pipeVars, extraVars>>

\* a call of StructuredStore.add_relationship
CallAddRelationship(relationship) ==
    /\ store_calls < MaxStoreCalls
    /\ add_relationship(relationship)
    /\ store_calls' = store_calls + 1
    /\ last_call' = noted_call("add_relationship", relationship)
    /\ UNCHANGED <<code_entities, api_mappings, now>>
    /\ UNCHANGED <<gapVars, pipeVars, extraVars>>

\* a call of StructuredStore.add_api_mapping
CallAddApiMapping(flutter_widget_id, python_endpoint_id, mapping_type, metadata) ==
    /\ store_calls < MaxStoreCalls
    /\ add_api_mapping(flutter_widget_id, python_endpoint_id, mapping_type, metadata)
    /\ store_calls' = store_calls + 1
    /\ last_call' = noted_call("add_api_mapping",
                               [flutter_widget_id |-> flutter_widget_id,
                                python_endpoint_id |-> python_endpoint_id,
                                mapping_type |-> mapping_type,
                                metadata |-> metadata])
    /\ UNCHANGED <<code_entities, relationships, now>>
    /\ UNCHANGED <<gapVars, pipeVars, extraVars>>

AnyAddEntity == \E entity \in EntityInputs : CallAddEntity(entity)

AnyAddRelationship == \E relationship \in RelationshipInputs : CallAddRelationship(relationship)

AnyAddApiMapping ==
    \E w \in WidgetIdInputs, e \in EndpointIdInputs, m \in {M_calls, M_stateful} :
        CallAddApiMapping(w, e, "api_call", m)

StoreNext == Tick \/ AnyAddEntity \/ AnyAddRelationship \/ AnyAddApiMapping

SpecStore == StoreInit /\ [][StoreNext]_vars

\* a row without its timestamps
Content(row) == [k \in DOMAIN row \ {"created_at", "updated_at"} |-> row[k]]
Contents(table) == {Content(r) : r \in table}
Ids(table) == {r.id : r \in table}
UniqueIds(table) == \A r1, r2 \in table : r1.id = r2.id => r1 = r2

\* an upsert of a record with id `id` into `before` giving `after`: at most
\* one row per id, and the row count kept when the id existed
UpsertLaw(before, after, id) ==
    /\ UniqueIds(after)
    /\ id \in Ids(before) => Cardinality(after) = Cardinality(before)

\* the call now made repeats the caller's previous call on the same record
Repeats(op, arg) ==
    /\ last_call.op = op
    /\ Content(last_call.arg) = Content(arg)

\* no table has changed in a field other than a timestamp
ContentsKept ==
    /\ Contents(code_entities') = Contents(code_entities)
    /\ Contents(relationships') = Contents(relationships)
    /\ Contents(api_mappings') = Contents(api_mappings)

\* C9: each table holds at most one row per id; an upsert of an id that is
\* already stored leaves the row count unchanged; and a second upsert of the
\* identical record leaves every stored field but the timestamps as they were
\* after the first.
C9_UpsertIdempotent ==
    /\ [](UniqueIds(code_entities) /\ UniqueIds(relationships) /\ UniqueIds(api_mappings))
    /\ [][\A entity \in EntityInputs :
            CallAddEntity(entity) =>
                /\ UpsertLaw(code_entities, code_entities', entity.id)
                /\ Repeats("add_entity", entity) => ContentsKept]_vars
    /\ [][\A relationship \in RelationshipInputs :
            CallAddRelationship(relationship) =>
                /\ UpsertLaw(relationships, relationships', relationship.id)
                /\ Repeats("add_relationship", relationship) => ContentsKept]_vars
    /\ [][\A w \in WidgetIdInputs, e \in EndpointIdInputs, m \in {M_calls, M_stateful} :
            CallAddApiMapping(w, e, "api_call", m) =>
                /\ UpsertLaw(api_mappings, api_mappings', w \o "_" \o e)
                /\ Repeats("add_api_mapping",
                           [flutter_widget_id |-> w, python_endpoint_id |-> e,
                            mapping_type |-> "api_call", metadata |-> m])
                       => ContentsKept]_vars

\* C9 witness: the caller has just upserted the very entity of its previous
\* call once more, and the table holds that single row.
C9_Witness ==
    /\ last_call.op = "add_entity"
    /\ last_call.repeat
    /\ Cardinality(code_entities) = 1
    /\ \E r \in code_entities :
          /\ r.id = last_call.arg.id
          /\ r.name = last_call.arg.name
          /\ r.updated_at = now

\* get_entities_by_type, lines 134-153: the entities read back from the rows
\* of one type (SELECT without ORDER BY: a collection in no promised order)
get_entities_by_type(entity_type) ==
    { CodeEntity(row.id, row.type, row.name, row.file_path, row.language,
                 json_loads(row.metadata), row.created_at, row.updated_at) :
          row \in {r \in code_entities : r.type = entity_type} }

\* a Python value after a JSON encode and decode: tuples come back as lists
RECURSIVE RuleDecoded(_)
RuleDecoded(pv) ==
    IF pv.t \in {"list", "tuple"}
    THEN [t |-> "list", v |-> [k \in DOMAIN pv.v |-> RuleDecoded(pv.v[k])]]
    ELSE pv

\* the caller's latest call was an add_entity that succeeded
LastAddSucceeded ==
    /\ last_call.op = "add_entity"
    /\ \A k \in DOMAIN last_call.arg.metadata :
          last_call.arg.metadata[k].t # "set"

\* C12: after a successful add_entity(e) with no later write,
\* get_entities_by_type(e.type) holds exactly one entity with e's id, and it
\* has e's type, name and file_path and the JSON encode/decode of e's
\* metadata as its metadata.
C12_RoundTrip ==
    LastAddSucceeded =>
        LET e == last_call.arg
            got == {x \in get_entities_by_type(e.type) : x.id = e.id}
        IN /\ Cardinality(got) = 1
           /\ \A x \in got :
                 /\ x.type = e.type
                 /\ x.name = e.name
                 /\ x.file_path = e.file_path
                 /\ DOMAIN x.metadata = DOMAIN e.metadata
                 /\ \A k \in DOMAIN e.metadata : x.metadata[k] = RuleDecoded(e.metadata[k])

\* C12 witness: the entity read back differs from the one written, its tuple
\* having come back as a list.
C12_Witness ==
    /\ LastAddSucceeded
    /\ \E k \in DOMAIN last_call.arg.metadata : last_call.arg.metadata[k].t = "tuple"
    /\ \E x \in get_entities_by_type(last_call.arg.type) :
          /\ x.id = last_call.arg.id
          /\ x.metadata # last_call.arg.metadata

\* C10: an add_entity of an id that is already stored keeps the stored row's
\* created_at and sets updated_at to the time of the call.
C10_CreatedAtKept ==
    [][\A entity \in EntityInputs :
          (CallAddEntity(entity) /\ dumps_ok(entity.metadata)) =>
              \A old \in code_entities : old.id = entity.id =>
                  \E new \in code_entities' :
                      /\ new.id = entity.id
                      /\ new.updated_at = now
                      /\ new.created_at = old.created_at]_vars

(***************************************************************************)
(* memory_agent.py: MemoryAgent.update_entity_metadata, called by the      *)
(* store's caller among its other writes.                                  *)
(***************************************************************************)
\* dict.update: the keys of `other` overwrite, the remaining keys stay
dict_update(d, other) ==
    [k \in DOMAIN d \cup DOMAIN other |-> IF k \in DOMAIN other THEN other[k] ELSE d[k]]

\* lines 201-203: the entities of the three types that are searched
searched_entities ==
    get_entities_by_type("widget") \cup get_entities_by_type("api_endpoint")
        \cup get_entities_by_type("model")

\* lines 205-210
update_entity_metadata(entity_id, metadata) ==
    IF \E entity \in searched_entities : entity.id = entity_id
    THEN \E entity \in searched_entities :
            /\ entity.id = entity_id
            /\ add_entity([entity EXCEPT !.metadata = dict_update(entity.metadata, metadata),
                                         !.updated_at = now])
    ELSE UNCHANGED code_entities

CallUpdateEntityMetadata(entity_id, metadata) ==
    /\ store_calls < MaxStoreCalls
    /\ update_entity_metadata(entity_id, metadata)
    /\ store_calls' = store_calls + 1
    /\ last_call' = noted_call("update_entity_metadata",
                               [id |-> entity_id, metadata |-> metadata])
    /\ UNCHANGED <<relationships, api_mappings, now>>
    /\ UNCHANGED <<gapVars, pipeVars, extraVars>>

EntityIdInputs == {"e1", "e2", "e9"}

AnyUpdateEntityMetadata ==
    \E entity_id \in EntityIdInputs, metadata \in {M_stateful, M_calls} :
        CallUpdateEntityMetadata(entity_id, metadata)

MemoryNext == StoreNext \/ AnyUpdateEntityMetadata

SpecMemory == StoreInit /\ [][MemoryNext]_vars

\* the metadata stored for id is exactly the blob: its keys and no others
StoredBlobIs(table, id, blob) ==
    \A r \in table : r.id = id =>
        /\ DOMAIN r.metadata.json = DOMAIN blob
        /\ \A k \in DOMAIN blob : r.metadata.json[k] = json_value(blob[k])

\* C14: after any write to an existing entity id, by add_entity or by
\* update_entity_metadata, the stored metadata is exactly the blob that write
\* supplied; keys stored before and absent from the blob are gone.
C14_MetadataReplacedWhole ==
    [][/\ \A entity \in EntityInputs :
             (CallAddEntity(entity) /\ code_entities' # code_entities) =>
                 StoredBlobIs(code_entities', entity.id, entity.metadata)
       /\ \A entity_id \in EntityIdInputs, metadata \in {M_stateful, M_calls} :
             (CallUpdateEntityMetadata(entity_id, metadata)
                 /\ entity_id \in Ids(code_entities)) =>
                 StoredBlobIs(code_entities', entity_id, metadata)]_vars

(***************************************************************************)
(* structured_store.py: two add_entity coroutines running concurrently,    *)
(* each on its own connection.  A coroutine yields at `aiosqlite.connect`  *)
(* (line 100) and at `await db.execute` (line 101); the arguments of       *)
(* execute, datetime.now() among them, are evaluated before that await.    *)
(* SQLite holds the write lock from the INSERT to the commit, so the two   *)
(* statements of lines 101-109 take effect as one step.                    *)
(***************************************************************************)
\* line 100: the coroutine is called and opens its connection
WriterConnect(w) ==
    /\ w_pc[w] = "idle"
    /\ \E entity \in EntityInputs : w_entity' = [w_entity EXCEPT ![w] = entity]
    /\ w_pc' = [w_pc EXCEPT ![w] = "connected"]
    /\ UNCHANGED <<w_stamp, storeVars, besideWriters>>

\* lines 105-108: the argument tuple is built; json.dumps may raise, and the
\* handler of lines 111-113 then returns False
WriterArguments(w) ==
    /\ w_pc[w] = "connected"
    /\ IF dumps_ok(w_entity[w].metadata)
       THEN /\ w_stamp' = [w_stamp EXCEPT ![w] = now]
            /\ w_pc' = [w_pc EXCEPT ![w] = "executing"]
       ELSE /\ w_pc' = [w_pc EXCEPT ![w] = "failed"]
            /\ UNCHANGED w_stamp
    /\ UNCHANGED <<w_entity, storeVars, besideWriters>>

\* the row written by a coroutine: updated_at is the argument evaluated
\* earlier, created_at the table's DEFAULT CURRENT_TIMESTAMP
writer_row(w) ==
    [entity_row(w_entity[w]) EXCEPT !.updated_at = w_stamp[w]]

\* lines 101-110: INSERT OR REPLACE and commit
WriterCommit(w) ==
    /\ w_pc[w] = "executing"
    /\ code_entities' = InsertOrReplace(code_entities, writer_row(w))
    /\ w_pc' = [w_pc EXCEPT ![w] = "done"]
    /\ UNCHANGED <<w_entity, w_stamp, relationships, api_mappings, now,
                   store_calls, last_call, besideWriters>>

WritersInit ==
    /\ ExtraIdle
    /\ StoreIdle
    /\ GapIdle
    /\ PipeIdle

WritersNext ==
    \/ Tick
    \/ \E w \in Writers : WriterConnect(w) \/ WriterArguments(w) \/ WriterCommit(w)

SpecWriters == WritersInit /\ [][WritersNext]_vars

\* C11: every commit of a coroutine leaves, for its id, the row of that
\* coroutine's record alone (type, name, file_path, language and metadata all
\* of that write), and the row's updated_at is not earlier than the
\* updated_at of the row it replaced.
C11_LastWriteWins ==
    [][\A w \in Writers :
          WriterCommit(w) =>
              /\ \E r \in code_entities' :
                    /\ r.id = w_entity[w].id
                    /\ r.type = w_entity[w].type
                    /\ r.name = w_entity[w].name
                    /\ r.file_path = w_entity[w].file_path
                    /\ r.language = w_entity[w].language
                    /\ r.metadata = json_dumps(w_entity[w].metadata)
                    /\ \A q \in code_entities' : q.id = r.id => q = r
                    /\ \A old \in code_entities :
                          old.id = r.id => r.updated_at >= old.updated_at]_vars

(***************************************************************************)
(* memory_agent.py: MemoryAgent.store_code_analysis.  The vector store is  *)
(* an external collaborator: its calls change none of the tables and are   *)
(* not modelled.                                                           *)
(***************************************************************************)
\* Python's hash() of a str: an int fixed within one process, drawn anew by
\* each process's hash randomization.
hash(x) ==
    CASE hash_seed = 1 ->
             (CASE x = "lib/a.dart" -> 101
                [] x = "lib/b.dart" -> -102
                [] x = "api/x.py" -> 103
                [] OTHER -> 104)
      [] OTHER ->
             (CASE x = "lib/a.dart" -> -201
                [] x = "lib/b.dart" -> 202
                [] x = "api/x.py" -> 203
                [] OTHER -> 204)

\* MemoryAgent._paths_match(path1, path2), lines 534-541
MemoryAgent_paths_match(path1, path2) ==
    LET path1_clean == lower(strip_slash(path1))
        path2_clean == lower(strip_slash(path2))
    IN  str_in(path1_clean, path2_clean) \/ str_in(path2_clean, path1_clean)

\* lines 261-281: the entity of a widget record
widget_entity(widget) ==
    CodeEntity("flutter_widget_" \o widget.name \o "_" \o ToString(hash(widget.file_path)),
               "widget", widget.name, widget.file_path, "dart",
               [widget_type |-> PyStr(widget.type),
                dependencies |-> PyStrList(widget.dependencies),
                api_calls |-> PyStrList(widget.api_calls),
                navigation_routes |-> PyStrList(widget.navigation_routes),
                form_fields |-> PyStrList(widget.form_fields),
                validators |-> PyStrList(widget.validators),
                line_start |-> PyInt(widget.line_start),
                line_end |-> PyInt(widget.line_end)],
               now, now)

\* lines 305-320: the entity of a BLoC record
bloc_entity(bloc) ==
    CodeEntity("flutter_bloc_" \o bloc.name \o "_" \o ToString(hash(bloc.file_path)),
               "bloc", bloc.name, bloc.file_path, "dart",
               [bloc_type |-> PyStr(bloc.type),
                events |-> PyStrList(bloc.events),
                states |-> PyStrList(bloc.states)],
               now, now)

\* line 344 and line 438: the entity id of a backend endpoint record
endpoint_entity_id(endpoint) ==
    "python_endpoint_" \o endpoint.name \o "_" \o ToString(hash(endpoint.file_path))

\* lines 344-363: the entity of a backend endpoint record
endpoint_entity(endpoint) ==
    CodeEntity(endpoint_entity_id(endpoint),
               "api_endpoint", endpoint.name, endpoint.file_path, "python",
               [method |-> PyStr(endpoint.method),
                path |-> PyStr(endpoint.path),
                parameters |-> PyList(endpoint.parameters),
                return_type |-> endpoint.return_type,
                dependencies |-> PyStrList(endpoint.dependencies),
                middleware |-> PyStrList(endpoint.middleware),
                line_number |-> PyInt(endpoint.line_number)],
               now, now)

\* lines 385-401: the entity of a Pydantic model record
model_entity(model) ==
    CodeEntity("python_model_" \o model.name \o "_" \o ToString(hash(model.file_path)),
               "model", model.name, model.file_path, "python",
               [fields |-> PyList(model.fields),
                base_classes |-> PyStrList(model.base_classes),
                validators |-> PyStrList(model.validators),
                line_number |-> PyInt(model.line_number)],
               now, now)

\* line 433: the relationship id
relationship_id(api_call, endpoint) ==
    "api_call_" \o ToString(hash(api_call.file_path))
        \o "_" \o ToString(hash(endpoint.file_path))

\* line 437: the source entity id
source_entity_id(api_call) ==
    "flutter_api_call_" \o ToString(hash(api_call.file_path)) \o "_" \o ToString(api_call.line)

\* lines 433-446: the relationship of a matching (UI call, endpoint) pair
calls_relationship(api_call, endpoint) ==
    Relationship(relationship_id(api_call, endpoint),
                 source_entity_id(api_call),
                 endpoint_entity_id(endpoint),
                 "calls",
                 [endpoint |-> PyStr(api_call.endpoint),
                  method |-> PyStr(api_call.method),
                  confidence |-> PyFloat("0.8")],
                 now)

\* line 431: the test that a (UI call, endpoint) pair is linked
cross_reference_match(api_call, endpoint) ==
    MemoryAgent_paths_match(api_call.endpoint, endpoint.path)

(***************************************************************************)
(* Inputs of store_code_analysis: the extractors' records.                 *)
(***************************************************************************)
FlutterWidget(name, type, file_path, line_start, line_end) ==
    [name |-> name, type |-> type, file_path |-> file_path,
     line_start |-> line_start, line_end |-> line_end,
     dependencies |-> <<"Text">>, api_calls |-> << >>, navigation_routes |-> << >>,
     form_fields |-> << >>, validators |-> << >>]

BlocPattern(name, type, file_path) ==
    [name |-> name, type |-> type, events |-> <<"Load">>, states |-> <<"Ready">>,
     file_path |-> file_path]

APIEndpoint(name, method, path, file_path, line_number) ==
    [name |-> name, method |-> method, path |-> path, function_name |-> name,
     file_path |-> file_path, line_number |-> line_number, parameters |-> << >>,
     return_type |-> PyNone, dependencies |-> << >>, middleware |-> << >>]

PydanticModel(name, file_path, line_number) ==
    [name |-> name, file_path |-> file_path, line_number |-> line_number,
     fields |-> << >>, base_classes |-> <<"BaseModel">>, validators |-> << >>]

ApiCall(type, method, endpoint, file_path, line) ==
    [type |-> type, method |-> method, endpoint |-> endpoint,
     file_path |-> file_path, line |-> line]

WidgetLists == {<< >>, <<FlutterWidget("Home", "StatelessWidget", "lib/a.dart", 1, 9)>>}
BlocLists == {<< >>, <<BlocPattern("HomeBloc", "Bloc", "lib/b.dart")>>}
ModelLists == {<< >>, <<PydanticModel("Account", "api/x.py", 4)>>}

ApiCallPool ==
    { ApiCall("dio", "get", P_a, "lib/a.dart", 3),
      ApiCall("dio", "post", P_ba, "lib/a.dart", 7),
      ApiCall("http", "get", P_c, "lib/b.dart", 3) }

RoutePool ==
    { APIEndpoint("get_a", "GET", P_a, "api/x.py", 10),
      APIEndpoint("post_a", "POST", P_A, "api/x.py", 20),
      APIEndpoint("get_c", "GET", P_c, "api/y.py", 10) }

widgets == analysis_results.flutter.widgets
blocs == analysis_results.flutter.blocs
flutter_api_calls == analysis_results.flutter.api_calls
python_endpoints == analysis_results.python.endpoints
models == analysis_results.python.models

PipeInit ==
    /\ hash_seed \in {1, 2}
    /\ analysis_results \in
          { [flutter |-> [widgets |-> w, blocs |-> b, api_calls |-> c],
             python |-> [endpoints |-> e, models |-> m]] :
               w \in WidgetLists, b \in BlocLists,
               c \in SeqsUpTo(ApiCallPool, MaxApiCalls),
               e \in SeqsUpTo(RoutePool, MaxRoutes), m \in ModelLists }
    /\ pl_pc = "widgets"
    /\ pl_i = 0
    /\ pl_j = 0
    /\ StoreIdle
    /\ GapIdle
    /\ ExtraIdle

\* lines 260-283: one iteration of the widget loop of _store_flutter_analysis
StoreWidget ==
    /\ pl_pc = "widgets"
    /\ pl_i < Len(widgets)
    /\ add_entity(widget_entity(widgets[pl_i + 1]))
    /\ pl_i' = pl_i + 1
    /\ UNCHANGED <<relationships, api_mappings, now, store_calls, last_call>>
    /\ UNCHANGED <<hash_seed, analysis_results, pl_pc, pl_j, gapVars, extraVars>>

\* lines 304-322: one iteration of the BLoC loop of _store_flutter_analysis
StoreBloc ==
    /\ pl_pc = "blocs"
    /\ pl_i < Len(blocs)
    /\ add_entity(bloc_entity(blocs[pl_i + 1]))
    /\ pl_i' = pl_i + 1
    /\ UNCHANGED <<relationships, api_mappings, now, store_calls, last_call>>
    /\ UNCHANGED <<hash_seed, analysis_results, pl_pc, pl_j, gapVars, extraVars>>

\* lines 343-365: one iteration of the endpoint loop of _store_python_analysis
StoreEndpoint ==
    /\ pl_pc = "endpoints"
    /\ pl_i < Len(python_endpoints)
    /\ add_entity(endpoint_entity(python_endpoints[pl_i + 1]))
    /\ pl_i' = pl_i + 1
    /\ UNCHANGED <<relationships, api_mappings, now, store_calls, last_call>>
    /\ UNCHANGED <<hash_seed, analysis_results, pl_pc, pl_j, gapVars, extraVars>>

\* lines 384-403: one iteration of the model loop of _store_python_analysis
StoreModel ==
    /\ pl_pc = "models"
    /\ pl_i < Len(models)
    /\ add_entity(model_entity(models[pl_i + 1]))
    /\ pl_i' = pl_i + 1
    /\ UNCHANGED <<relationships, api_mappings, now, store_calls, last_call>>
    /\ UNCHANGED <<hash_seed, analysis_results, pl_pc, pl_j, gapVars, extraVars>>

\* lines 427-448: one iteration of the inner loop of _create_cross_references
CrossReference ==
    /\ pl_pc = "xref"
    /\ pl_i < Len(flutter_api_calls)
    /\ pl_j < Len(python_endpoints)
    /\ LET api_call == flutter_api_calls[pl_i + 1]
           endpoint == python_endpoints[pl_j + 1]
       IN  IF cross_reference_match(api_call, endpoint)
           THEN add_relationship(calls_relationship(api_call, endpoint))
           ELSE UNCHANGED relationships
    /\ IF pl_j + 1 = Len(python_endpoints)
       THEN pl_i' = pl_i + 1 /\ pl_j' = 0
       ELSE pl_i' = pl_i /\ pl_j' = pl_j + 1
    /\ UNCHANGED <<code_entities, api_mappings, now, store_calls, last_call>>
    /\ UNCHANGED <<hash_seed, analysis_results, pl_pc, gapVars, extraVars>>

\* the list of the current loop
PhaseList ==
    CASE pl_pc = "widgets" -> widgets
      [] pl_pc = "blocs" -> blocs
      [] pl_pc = "endpoints" -> python_endpoints
      [] pl_pc = "models" -> models
      [] OTHER -> flutter_api_calls

\* store_code_analysis, lines 17-29: the order of the loops
NextPhase ==
    CASE pl_pc = "widgets" -> "blocs"
      [] pl_pc = "blocs" -> "endpoints"
      [] pl_pc = "endpoints" -> "models"
      [] pl_pc = "models" -> "xref"
      [] OTHER -> "done"

\* a loop is exhausted: the next one starts, or store_code_analysis returns
PhaseDone ==
    /\ pl_pc \in {"widgets", "blocs", "endpoints", "models", "xref"}
    /\ \/ pl_i = Len(PhaseList)
       \/ pl_pc = "xref" /\ python_endpoints = << >>
    /\ pl_pc' = NextPhase
    /\ pl_i' = 0
    /\ pl_j' = 0
    /\ UNCHANGED <<hash_seed, analysis_results, storeVars, gapVars, extraVars>>

PipeNext ==
    StoreWidget \/ StoreBloc \/ StoreEndpoint \/ StoreModel \/ CrossReference \/ PhaseDone

SpecPipeline == PipeInit /\ [][PipeNext]_vars

\* the (UI call, route) pairs that match by path under the substring rule
\* and by method, case-insensitively (section 4.4)
MatchingPairs ==
    {pr \in (1..Len(flutter_api_calls)) \X (1..Len(python_endpoints)) :
        /\ RulePathsMatch(flutter_api_calls[pr[1]].endpoint, python_endpoints[pr[2]].path)
        /\ upper(flutter_api_calls[pr[1]].method) = upper(python_endpoints[pr[2]].method)}

\* relationship r links UI call i to route j
Links(r, i, j) ==
    /\ r.relationship_type = "calls"
    /\ r.source_entity_id = source_entity_id(flutter_api_calls[i])
    /\ r.target_entity_id = endpoint_entity_id(python_endpoints[j])

\* C6: every stored `calls` relationship links a UI call and a route whose
\* paths match under the substring rule and whose methods are equal,
\* case-insensitively.
C6_CallsOnlyOnPathAndMethod ==
    \A r \in relationships : \E pr \in MatchingPairs : Links(r, pr[1], pr[2])

\* C7: when cross-referencing has finished, every matching (UI call, route)
\* pair has its own `calls` relationship in the store.
C7_OneRelationshipPerPair ==
    pl_pc = "done" =>
        \A pr \in MatchingPairs : \E r \in relationships : Links(r, pr[1], pr[2])

\* C8: after store_code_analysis has completed, both ends of every stored
\* relationship are ids of stored entities, and no relationship is a loop.
C8_RelationshipEndsExist ==
    pl_pc = "done" =>
        \A r \in relationships :
            /\ r.source_entity_id \in Ids(code_entities)
            /\ r.target_entity_id \in Ids(code_entities)
            /\ r.source_entity_id # r.target_entity_id

(***************************************************************************)
(* The pipeline run again on unchanged source.  The second run may be a    *)
(* new process, whose hash randomization is drawn anew.                    *)
(***************************************************************************)
MaxRuns == 2

\* store_code_analysis has returned and is called again with the same results
Rerun ==
    /\ pl_pc = "done"
    /\ run < MaxRuns
    /\ run' = run + 1
    /\ hash_seed' \in {1, 2}
    /\ pl_pc' = "widgets"
    /\ pl_i' = 0
    /\ pl_j' = 0
    /\ UNCHANGED <<analysis_results, storeVars, gapVars, writerVars, orcVars,
                   batchVars, extractVars, svcVars>>

RerunNext == PipeNext \/ Rerun

SpecRerun == PipeInit /\ [][RerunNext]_vars

\* C13: a later run on unchanged source writes only onto the ids the first
\* run stored: no step of it changes the set of entity ids or the set of
\* relationship ids.
C13_RerunSameIds ==
    [][run > 1 =>
          /\ Ids(code_entities') = Ids(code_entities)
          /\ Ids(relationships') = Ids(relationships)]_vars

(***************************************************************************)
(* orchestrator.py: AgentOrchestrator.analyze_codebase.  The two analysis  *)
(* results are its inputs here; the vector store is not modelled.  A store *)
(* write may fail (the database is locked, the disk is full): add_entity   *)
(* and add_api_mapping then catch the exception, write nothing and return  *)
(* False, a value the orchestrator does not read.                          *)
(***************************************************************************)
ServiceFunction(name, file_path, line_number) ==
    [name |-> name, file_path |-> file_path, line_number |-> line_number,
     parameters |-> << >>, return_type |-> PyNone,
     database_operations |-> <<"query">>, external_calls |-> << >>]

ServiceLists == {<< >>, <<ServiceFunction("load_accounts", "api/y.py", 30)>>}

\* lines 182-199: the entity of a widget record
orc_widget_entity(widget) ==
    CodeEntity("flutter_widget_" \o widget.name \o "_" \o ToString(hash(widget.file_path)),
               "widget", widget.name, widget.file_path, "dart",
               [widget_type |-> PyStr(widget.type),
                dependencies |-> PyStrList(widget.dependencies),
                api_calls |-> PyStrList(widget.api_calls),
                navigation_routes |-> PyStrList(widget.navigation_routes),
                form_fields |-> PyStrList(widget.form_fields),
                validators |-> PyStrList(widget.validators)],
               now, now)

\* lines 208-224: the entity of a backend endpoint record
orc_endpoint_entity(endpoint) ==
    CodeEntity("python_endpoint_" \o endpoint.name \o "_" \o ToString(hash(endpoint.file_path)),
               "api_endpoint", endpoint.name, endpoint.file_path, "python",
               [method |-> PyStr(endpoint.method),
                path |-> PyStr(endpoint.path),
                parameters |-> PyList(endpoint.parameters),
                return_type |-> endpoint.return_type,
                dependencies |-> PyStrList(endpoint.dependencies)],
               now, now)

\* lines 232-247: the entity of a Pydantic model record
orc_model_entity(model) ==
    CodeEntity("python_model_" \o model.name \o "_" \o ToString(hash(model.file_path)),
               "model", model.name, model.file_path, "python",
               [fields |-> PyList(model.fields),
                base_classes |-> PyStrList(model.base_classes),
                validators |-> PyStrList(model.validators)],
               now, now)

\* line 265: the test that a (UI call, endpoint) pair is mapped
api_mapping_match(api_call, endpoint) ==
    str_in(endpoint.path, api_call.endpoint) \/ str_in(api_call.endpoint, endpoint.path)

\* lines 266-267: the two ids of a mapping
orc_flutter_widget_id(api_call) ==
    "flutter_api_call_" \o ToString(hash(api_call.file_path)) \o "_" \o ToString(api_call.line)

orc_python_endpoint_id(endpoint) ==
    "python_endpoint_" \o endpoint.name \o "_" \o ToString(hash(endpoint.file_path))

\* lines 273-278: the metadata of a mapping
api_mapping_metadata(api_call, endpoint) ==
    [flutter_method |-> PyStr(api_call.method),
     python_method |-> PyStr(endpoint.method),
     endpoint |-> PyStr(api_call.endpoint),
     confidence |-> PyFloat("0.8")]

\* structured_store.py, get_stats, lines 245-268 (no change request is ever
\* written here)
count_by(table, field) ==
    [v \in {r[field] : r \in table} |-> Cardinality({r \in table : r[field] = v})]

get_stats ==
    [entities |-> count_by(code_entities, "type"),
     relationships |-> count_by(relationships, "relationship_type"),
     change_requests |-> 0,
     api_mappings |-> Cardinality(api_mappings)]

\* lines 55-69: the summary returned (of memory_stats, the structured
\* store's part)
summary ==
    [flutter |-> [widgets |-> Len(flutter_results.widgets),
                  blocs |-> Len(flutter_results.blocs),
                  api_calls |-> Len(flutter_results.api_calls),
                  routes |-> Len(flutter_results.routes)],
     python |-> [endpoints |-> Len(python_results.endpoints),
                 models |-> Len(python_results.models),
                 services |-> Len(python_results.services),
                 validators |-> Len(python_results.validators)],
     memory_stats |-> [structured_store |-> get_stats]]

MaxFailures == 1

OrcInit ==
    /\ flutter_results \in
          { [widgets |-> w, blocs |-> b, api_calls |-> c, routes |-> << >>] :
                w \in WidgetLists, b \in BlocLists,
                c \in SeqsUpTo(ApiCallPool, MaxApiCalls) }
    /\ python_results \in
          { [endpoints |-> e, models |-> m, services |-> v, validators |-> << >>] :
                e \in SeqsUpTo(RoutePool, MaxRoutes), m \in ModelLists,
                v \in ServiceLists }
    /\ orc_pc = "widgets"
    /\ orc_i = 0
    /\ orc_j = 0
    /\ failed_writes = 0
    /\ analysis_summary = << >>
    /\ WritersIdle
    /\ SvcIdle
    /\ run = 1
    /\ BatchIdle
    /\ ExtractIdle
    /\ StoreIdle
    /\ GapIdle
    /\ PipeIdle

\* what analyze_codebase leaves alone besides the tables and its own variables
besideOrc == <<now, store_calls, last_call, writerVars, run, batchVars, extractVars,
               svcVars, gapVars, pipeVars>>

\* a store write: it succeeds, or it fails, writes nothing and returns False
StoreWrite(write) ==
    \/ /\ write
       /\ UNCHANGED failed_writes
    \/ /\ failed_writes < MaxFailures
       /\ failed_writes' = failed_writes + 1
       /\ UNCHANGED <<code_entities, api_mappings>>

\* lines 181-204: one iteration of the widget loop of _store_analysis_results
OrcStoreWidget ==
    /\ orc_pc = "widgets"
    /\ orc_i < Len(flutter_results.widgets)
    /\ StoreWrite(add_entity(orc_widget_entity(flutter_results.widgets[orc_i + 1]))
                  /\ UNCHANGED api_mappings)
    /\ orc_i' = orc_i + 1
    /\ UNCHANGED <<flutter_results, python_results, orc_pc, orc_j, analysis_summary,
                   relationships, besideOrc>>

\* lines 207-229: one iteration of the endpoint loop
OrcStoreEndpoint ==
    /\ orc_pc = "endpoints"
    /\ orc_i < Len(python_results.endpoints)
    /\ StoreWrite(add_entity(orc_endpoint_entity(python_results.endpoints[orc_i + 1]))
                  /\ UNCHANGED api_mappings)
    /\ orc_i' = orc_i + 1
    /\ UNCHANGED <<flutter_results, python_results, orc_pc, orc_j, analysis_summary,
                   relationships, besideOrc>>

\* lines 231-252: one iteration of the model loop
OrcStoreModel ==
    /\ orc_pc = "models"
    /\ orc_i < Len(python_results.models)
    /\ StoreWrite(add_entity(orc_model_entity(python_results.models[orc_i + 1]))
                  /\ UNCHANGED api_mappings)
    /\ orc_i' = orc_i + 1
    /\ UNCHANGED <<flutter_results, python_results, orc_pc, orc_j, analysis_summary,
                   relationships, besideOrc>>

\* lines 260-279: one iteration of the inner loop of _create_api_mappings
OrcCreateApiMapping ==
    /\ orc_pc = "mappings"
    /\ orc_i < Len(flutter_results.api_calls)
    /\ orc_j < Len(python_results.endpoints)
    /\ LET api_call == flutter_results.api_calls[orc_i + 1]
           endpoint == python_results.endpoints[orc_j + 1]
       IN  IF api_mapping_match(api_call, endpoint)
           THEN StoreWrite(add_api_mapping(orc_flutter_widget_id(api_call),
                                           orc_python_endpoint_id(endpoint),
                                           "api_call",
                                           api_mapping_metadata(api_call, endpoint))
                           /\ UNCHANGED code_entities)
           ELSE UNCHANGED <<code_entities, api_mappings, failed_writes>>
    /\ IF orc_j + 1 = Len(python_results.endpoints)
       THEN orc_i' = orc_i + 1 /\ orc_j' = 0
       ELSE orc_i' = orc_i /\ orc_j' = orc_j + 1
    /\ UNCHANGED <<flutter_results, python_results, orc_pc, analysis_summary,
                   relationships, besideOrc>>

\* the list of the current loop
OrcPhaseList ==
    CASE orc_pc = "widgets" -> flutter_results.widgets
      [] orc_pc = "endpoints" -> python_results.endpoints
      [] orc_pc = "models" -> python_results.models
      [] OTHER -> flutter_results.api_calls

\* lines 50-53 and 181-252: the order of the loops
OrcNextPhase ==
    CASE orc_pc = "widgets" -> "endpoints"
      [] orc_pc = "endpoints" -> "models"
      [] orc_pc = "models" -> "mappings"
      [] OTHER -> "summary"

\* a loop is exhausted: the next one starts
OrcPhaseDone ==
    /\ orc_pc \in {"widgets", "endpoints", "models", "mappings"}
    /\ \/ orc_i = Len(OrcPhaseList)
       \/ orc_pc = "mappings" /\ python_results.endpoints = << >>
    /\ orc_pc' = OrcNextPhase
    /\ orc_i' = 0
    /\ orc_j' = 0
    /\ UNCHANGED <<flutter_results, python_results, failed_writes, analysis_summary,
                   code_entities, relationships, api_mappings, besideOrc>>

\* lines 55-72: the summary is built and returned
OrcReturn ==
    /\ orc_pc = "summary"
    /\ analysis_summary' = summary
    /\ orc_pc' = "done"
    /\ UNCHANGED <<flutter_results, python_results, orc_i, orc_j, failed_writes,
                   code_entities, relationships, api_mappings, besideOrc>>

OrcNext ==
    \/ OrcStoreWidget
    \/ OrcStoreEndpoint
    \/ OrcStoreModel
    \/ OrcCreateApiMapping
    \/ OrcPhaseDone
    \/ OrcReturn

SpecOrchestrator == OrcInit /\ [][OrcNext]_vars

\* the records of a list differ pairwise in (name, file_path)
DistinctRecords(records) ==
    \A i, j \in 1..Len(records) :
        (records[i].name = records[j].name /\ records[i].file_path = records[j].file_path)
            => i = j

\* the number of stored entities whose type is one of `types`
StoredOfKind(types) == Cardinality({r \in code_entities : r.type \in types})

\* C15: after analyze_codebase without a failed write, on records that differ
\* pairwise in (type, name, file_path), the stored entities of each kind (UI
\* component, state container, backend route, data model, service function)
\* are as many as the extracted records of that kind.
C15_OneEntityPerRecord ==
    (/\ orc_pc = "done"
     /\ failed_writes = 0
     /\ DistinctRecords(flutter_results.widgets)
     /\ DistinctRecords(flutter_results.blocs)
     /\ DistinctRecords(python_results.endpoints)
     /\ DistinctRecords(python_results.models)
     /\ DistinctRecords(python_results.services))
    => /\ StoredOfKind({"widget", "ui_component"}) = Len(flutter_results.widgets)
       /\ StoredOfKind({"bloc", "state_container"}) = Len(flutter_results.blocs)
       /\ StoredOfKind({"api_endpoint"}) = Len(python_results.endpoints)
       /\ StoredOfKind({"model", "data_model"}) = Len(python_results.models)
       /\ StoredOfKind({"service", "service_function"}) = Len(python_results.services)

\* the ids analyze_codebase sets out to write
PlannedEntityIds ==
    {orc_widget_entity(flutter_results.widgets[i]).id : i \in 1..Len(flutter_results.widgets)}
        \cup {orc_endpoint_entity(python_results.endpoints[i]).id :
                  i \in 1..Len(python_results.endpoints)}
        \cup {orc_model_entity(python_results.models[i]).id : i \in 1..Len(python_results.models)}

PlannedMappingIds ==
    {orc_flutter_widget_id(flutter_results.api_calls[pr[1]]) \o "_"
         \o orc_python_endpoint_id(python_results.endpoints[pr[2]]) :
       pr \in {q \in (1..Len(flutter_results.api_calls)) \X (1..Len(python_results.endpoints)) :
                  api_mapping_match(flutter_results.api_calls[q[1]],
                                    python_results.endpoints[q[2]])}}

\* the fields of a dict other than those named
OtherFields(d, named) == {d[k] : k \in DOMAIN d \ named}

\* the summary has a field, beside those that count something else, whose
\* value is n
CarriesCount(n) ==
    n \in OtherFields(analysis_summary, {"flutter", "python", "memory_stats"})
            \cup OtherFields(analysis_summary.flutter,
                             {"widgets", "blocs", "api_calls", "routes"})
            \cup OtherFields(analysis_summary.python,
                             {"endpoints", "models", "services", "validators"})
            \cup OtherFields(analysis_summary.memory_stats, {"vector_store", "structured_store"})
            \cup OtherFields(analysis_summary.memory_stats.structured_store,
                             {"entities", "relationships", "change_requests", "api_mappings"})

\* C17: when analyze_codebase has returned after a failed store write,
\* every entity and mapping other than the failed writes is stored, and the
\* summary returned carries the number of failed writes.
C17_FailureReported ==
    (orc_pc = "done" /\ failed_writes > 0) =>
        /\ Cardinality(code_entities) + Cardinality(api_mappings) + failed_writes
              >= Cardinality(PlannedEntityIds) + Cardinality(PlannedMappingIds)
        /\ CarriesCount(failed_writes)

(***************************************************************************)
(* flutter_analyzer.py / python_analyzer.py: analyze_project.  A source    *)
(* file is given by the records its extractors return and by the error,    *)
(* if any, that reading or parsing it raises: "open" (open fails),         *)
(* "decode" (f.read fails), "parse" (ast.parse fails) or "extract" (an     *)
(* extractor fails after others have returned records).                    *)
(***************************************************************************)
MaxFiles == 3

SourceFile(path, error, records) == [path |-> path, error |-> error, records |-> records]

DartFiles ==
    { SourceFile("lib/a.dart", "none",
                 [widgets |-> <<"Home">>, blocs |-> << >>, api_calls |-> <<"dio.get /a">>,
                  routes |-> << >>, imports |-> <<"dio">>]),
      SourceFile("lib/b.dart", "none",
                 [widgets |-> <<"Login">>, blocs |-> <<"HomeBloc">>, api_calls |-> << >>,
                  routes |-> <<"/home">>, imports |-> << >>]),
      SourceFile("lib/c.dart", "decode", << >>),
      SourceFile("lib/d.dart", "extract",
                 [widgets |-> <<"Broken">>, blocs |-> << >>, api_calls |-> << >>,
                  routes |-> << >>, imports |-> << >>]) }

PythonFiles ==
    { SourceFile("api/x.py", "none",
                 [endpoints |-> <<"get_a", "post_a">>, models |-> <<"Account">>,
                  services |-> << >>, middleware |-> << >>, database_models |-> << >>,
                  validators |-> << >>, imports |-> <<"fastapi">>]),
      SourceFile("api/y.py", "none",
                 [endpoints |-> << >>, models |-> << >>, services |-> <<"load_accounts">>,
                  middleware |-> << >>, database_models |-> << >>,
                  validators |-> <<"check_iban">>, imports |-> << >>]),
      SourceFile("api/z.py", "parse", << >>),
      SourceFile("api/w.py", "open", << >>) }

\* the lists of distinct files, up to n of them
RECURSIVE DistinctSeqs(_, _)
DistinctSeqs(S, n) ==
    IF n = 0 THEN {<< >>}
    ELSE LET shorter == DistinctSeqs(S, n - 1)
         IN  shorter \cup {Append(q, x) : q \in shorter, x \in S}

WalkedFiles(S) ==
    {q \in DistinctSeqs(S, MaxFiles) : \A i, j \in 1..Len(q) : q[i] = q[j] => i = j}

\* the body of the try block of analyze_dart_file (lines 74-86) and of
\* analyze_python_file (lines 88-103): the dict built, or the exception raised
try_analyze_file(file) ==
    IF file.error = "none"
    THEN [raised |-> FALSE, value |-> file.records]
    ELSE [raised |-> TRUE, value |-> file.error]

\* the call with no handler around the body
analyze_file_unguarded(file) == try_analyze_file(file)

\* analyze_dart_file, lines 72-89, and analyze_python_file, lines 86-106:
\* `except Exception` returns the empty dict
analyze_file(file) ==
    LET outcome == try_analyze_file(file)
    IN  IF outcome.raised THEN [raised |-> FALSE, value |-> << >>] ELSE outcome

\* dict.get(key, [])
get_list(d, key) == IF key \in DOMAIN d THEN d[key] ELSE << >>

\* the lists analyze_project aggregates: flutter_analyzer.py lines 65-68,
\* python_analyzer.py lines 74-79
aggregated_keys(analyzer) ==
    IF analyzer = "flutter"
    THEN {"widgets", "blocs", "api_calls", "routes"}
    ELSE {"endpoints", "models", "services", "middleware", "database_models", "validators"}

\* _analyze_pubspec (lines 271-305) and _analyze_requirements (lines 465-479):
\* a manifest that cannot be read leaves the empty lists
manifest_dependencies(analyzer, manifest) ==
    IF analyzer = "flutter"
    THEN [dependencies |-> IF manifest = "readable" THEN <<"dio">> ELSE << >>,
          dev_dependencies |-> << >>]
    ELSE [packages |-> IF manifest = "readable" THEN <<"fastapi">> ELSE << >>]

BatchInit ==
    /\ batch_project \in
          { [analyzer |-> "flutter", manifest |-> m, files |-> f] :
                m \in {"absent", "readable", "unreadable"}, f \in WalkedFiles(DartFiles) }
          \cup
          { [analyzer |-> "python", manifest |-> m, files |-> f] :
                m \in {"absent", "readable", "unreadable"}, f \in WalkedFiles(PythonFiles) }
    /\ batch_results = << >>
    /\ batch_pc = "start"
    /\ batch_i = 0
    /\ WritersIdle
    /\ SvcIdle
    /\ run = 1
    /\ OrcIdle
    /\ ExtractIdle
    /\ StoreIdle
    /\ GapIdle
    /\ PipeIdle

besideBatch == <<writerVars, run, orcVars, extractVars, svcVars, storeVars, gapVars, pipeVars>>

\* flutter_analyzer.py lines 41-54, python_analyzer.py lines 51-64: the
\* results dict is created and the manifest analysed
BatchStart ==
    /\ batch_pc = "start"
    /\ batch_results' =
          [k \in aggregated_keys(batch_project.analyzer) \cup {"dependencies"} |->
              IF k = "dependencies"
              THEN (IF batch_project.manifest = "absent" THEN << >>
                    ELSE manifest_dependencies(batch_project.analyzer, batch_project.manifest))
              ELSE << >>]
    /\ batch_pc' = "files"
    /\ UNCHANGED <<batch_project, batch_i, besideBatch>>

\* flutter_analyzer.py lines 59-68, python_analyzer.py lines 70-79: one file
BatchFile ==
    /\ batch_pc = "files"
    /\ batch_i < Len(batch_project.files)
    /\ LET outcome == analyze_file(batch_project.files[batch_i + 1])
       IN  IF outcome.raised
           THEN /\ batch_pc' = "aborted"
                /\ UNCHANGED <<batch_results, batch_i>>
           ELSE /\ batch_results' =
                      [k \in DOMAIN batch_results |->
                          IF k \in aggregated_keys(batch_project.analyzer)
                          THEN batch_results[k] \o get_list(outcome.value, k)
                          ELSE batch_results[k]]
                /\ batch_i' = batch_i + 1
                /\ UNCHANGED batch_pc
    /\ UNCHANGED <<batch_project, besideBatch>>

\* flutter_analyzer.py line 70, python_analyzer.py line 81: return results
BatchReturn ==
    /\ batch_pc = "files"
    /\ batch_i = Len(batch_project.files)
    /\ batch_pc' = "done"
    /\ UNCHANGED <<batch_project, batch_results, batch_i, besideBatch>>

BatchNext == BatchStart \/ BatchFile \/ BatchReturn

SpecBatch == BatchInit /\ [][BatchNext]_vars

\* the records of one kind in the files that raise no error, in file order
RECURSIVE RecordsOfGoodFiles(_, _)
RecordsOfGoodFiles(files, kind) ==
    IF files = << >> THEN << >>
    ELSE (IF Head(files).error = "none" /\ kind \in DOMAIN Head(files).records
          THEN Head(files).records[kind] ELSE << >>)
             \o RecordsOfGoodFiles(Tail(files), kind)

\* C16: the batch never aborts, and when it has returned the aggregated
\* result holds, for each kind, the records of the files without an error, in
\* order, exactly as if the failing files were absent.
C16_BatchSurvivesBadFile ==
    /\ batch_pc # "aborted"
    /\ batch_pc = "done" =>
          \A kind \in aggregated_keys(batch_project.analyzer) :
              batch_results[kind] = RecordsOfGoodFiles(batch_project.files, kind)

\* C16 witness: a batch has returned whose second file failed with records
\* already extracted, between two files whose records are in the result.
C16_Witness ==
    /\ batch_pc = "done"
    /\ Len(batch_project.files) = 3
    /\ batch_project.files[1].error = "none"
    /\ batch_project.files[2].error = "extract"
    /\ batch_project.files[3].error = "none"
    /\ batch_results.widgets = <<"Home", "Login">>

(***************************************************************************)
(* python_analyzer.py: PythonAnalyzer._extract_fastapi_endpoints on a      *)
(* parsed module.  A node of the tree is given by its class, its name, its *)
(* decorator list and its body; of the other child nodes none is a         *)
(* function definition.                                                    *)
(***************************************************************************)
MaxDefs == 2

Constant(value) == [kind |-> "Constant", value |-> value]
Name(id) == [kind |-> "Name", id |-> id]
Attribute(value, attr) == [kind |-> "Attribute", value |-> value, attr |-> attr]
Call(func, args) == [kind |-> "Call", func |-> func, args |-> args]

Def(kind, name, lineno, decorator_list, body) ==
    [kind |-> kind, name |-> name, lineno |-> lineno,
     decorator_list |-> decorator_list, body |-> body]

\* @router.<attr>(<path>)
RouteDecorator(attr, path) == Call(Attribute(Name("router"), attr), <<Constant(path)>>)

DefPool ==
    { Def("FunctionDef", "get_a", 3, <<RouteDecorator("get", "/a")>>, << >>),
      Def("AsyncFunctionDef", "post_b", 7, <<RouteDecorator("post", "/b")>>, << >>),
      Def("FunctionDef", "both", 12,
          <<RouteDecorator("put", "/c"), RouteDecorator("patch", "/c")>>, << >>),
      Def("FunctionDef", "plain", 16, << >>, << >>),
      Def("FunctionDef", "cached", 20,
          <<Call(Name("lru_cache"), <<Constant("8")>>),
            Attribute(Name("router"), "get"),
            Call(Attribute(Name("app"), "middleware"), <<Constant("http")>>)>>, << >>),
      Def("FunctionDef", "by_name", 24,
          <<Call(Attribute(Name("router"), "delete"), <<Name("PATH")>>)>>, << >>),
      Def("ClassDef", "Api", 28, << >>,
          <<Def("FunctionDef", "get_item", 30, <<RouteDecorator("get", "/item")>>, << >>)>>) }

Module(body) == [kind |-> "Module", name |-> "", lineno |-> 0,
                 decorator_list |-> << >>, body |-> body]

\* ast.walk: the nodes of the tree breadth first
RECURSIVE walk_queue(_)
walk_queue(todo) ==
    IF todo = << >> THEN << >>
    ELSE <<Head(todo)>> \o walk_queue(Tail(todo) \o Head(todo).body)

walk(tree) == walk_queue(<<tree>>)

\* line 113: isinstance(node, ast.FunctionDef); ast.AsyncFunctionDef is not a
\* subclass of ast.FunctionDef
is_function_def(node) == node.kind = "FunctionDef"

\* lines 116-119
is_route_decorator(decorator) ==
    /\ decorator.kind = "Call"
    /\ decorator.func.kind = "Attribute"
    /\ decorator.func.attr \in {"get", "post", "put", "delete", "patch"}

\* _extract_path_from_decorator, lines 293-300
extract_path_from_decorator(decorator) ==
    IF decorator.args # << >> /\ decorator.args[1].kind = "Constant"
    THEN decorator.args[1].value
    ELSE ""

\* lines 120-134: the record of one decorator of a function
route_record(node, decorator) ==
    [name |-> node.name, method |-> upper(decorator.func.attr),
     path |-> extract_path_from_decorator(decorator),
     function_name |-> node.name, line_number |-> node.lineno]

\* lines 115-135: the records of one function, decorator by decorator
RECURSIVE records_of(_, _)
records_of(node, decorators) ==
    IF decorators = << >> THEN << >>
    ELSE (IF is_route_decorator(Head(decorators))
          THEN <<route_record(node, Head(decorators))>> ELSE << >>)
             \o records_of(node, Tail(decorators))

\* lines 112-135: the loop over the walked nodes
RECURSIVE endpoints_of(_)
endpoints_of(nodes) ==
    IF nodes = << >> THEN << >>
    ELSE (IF is_function_def(Head(nodes))
          THEN records_of(Head(nodes), Head(nodes).decorator_list) ELSE << >>)
             \o endpoints_of(Tail(nodes))

\* _extract_fastapi_endpoints, lines 108-137
extract_fastapi_endpoints(tree) == endpoints_of(walk(tree))

besideExtract == <<writerVars, run, orcVars, batchVars, svcVars, storeVars, gapVars, pipeVars>>

OthersIdle ==
    /\ WritersIdle
    /\ run = 1
    /\ OrcIdle
    /\ BatchIdle
    /\ SvcIdle
    /\ StoreIdle
    /\ GapIdle
    /\ PipeIdle

RoutesInit ==
    /\ ex_input \in {Module(body) : body \in SeqsUpTo(DefPool, MaxDefs)}
    /\ ex_output = << >>
    /\ ex_pc = "called"
    /\ OthersIdle

ExtractRoutes ==
    /\ ex_pc = "called"
    /\ ex_output' = extract_fastapi_endpoints(ex_input)
    /\ ex_pc' = "returned"
    /\ UNCHANGED <<ex_input, besideExtract>>

SpecRoutes == RoutesInit /\ [][ExtractRoutes]_vars

\* the places of the module's statements: <<i, 0>> is statement i of the
\* module, <<i, j>> statement j of the class that is statement i
Places ==
    {<<i, 0>> : i \in 1..Len(ex_input.body)}
        \cup UNION {{<<i, j>> : j \in 1..Len(ex_input.body[i].body)} :
                       i \in 1..Len(ex_input.body)}

NodeAt(place) ==
    IF place[2] = 0 THEN ex_input.body[place[1]]
    ELSE ex_input.body[place[1]].body[place[2]]

\* decorator k of node n is a call of an attribute named as an HTTP verb
VerbDecorator(n, k) ==
    /\ k <= Len(n.decorator_list)
    /\ n.decorator_list[k].kind = "Call"
    /\ n.decorator_list[k].func.kind = "Attribute"
    /\ n.decorator_list[k].func.attr \in {"get", "post", "put", "delete", "patch"}

\* the (function, verb decorator) pairs of the module, the function being
\* synchronous or async
RoutePairs ==
    {pr \in Places \X (1..3) :
        /\ NodeAt(pr[1]).kind \in {"FunctionDef", "AsyncFunctionDef"}
        /\ VerbDecorator(NodeAt(pr[1]), pr[2])}

\* what the rule of section 4.2 gives for a pair
RuleRoute(pr) ==
    LET decorator == NodeAt(pr[1]).decorator_list[pr[2]]
    IN  [name |-> NodeAt(pr[1]).name,
         method |-> upper(decorator.func.attr),
         path |-> IF decorator.args[1].kind = "Constant"
                  THEN decorator.args[1].value ELSE ""]

\* C18: when the extractor has returned, every verb decorator of every
\* function, synchronous or async, has its record with the upper-cased
\* attribute as method and the first literal argument as path, and there are
\* as many records as such decorators, so none for other functions.
C18_RoutePerVerbDecorator ==
    ex_pc = "returned" =>
        /\ \A pr \in RoutePairs :
              \E i \in 1..Len(ex_output) :
                 /\ ex_output[i].name = RuleRoute(pr).name
                 /\ ex_output[i].method = RuleRoute(pr).method
                 /\ ex_output[i].path = RuleRoute(pr).path
        /\ Len(ex_output) = Cardinality(RoutePairs)

(***************************************************************************)
(* flutter_analyzer.py: FlutterAnalyzer._extract_widgets.  The source text *)
(* is a sequence of tokens: words, "{", "}" and the line break "\n".  Two  *)
(* neighbouring tokens are separated by blanks unless one is a line break, *)
(* so the \s+ and \s* of the patterns match any run of line-break tokens,  *)
(* the empty run included.  The text is given as a list of chunks, each a  *)
(* declaration; `content` is their concatenation.                          *)
(***************************************************************************)
MaxChunks == 3

\* a chunk: its tokens, the class it declares (name and base), and the place
\* among its tokens of the "}" that closes the declaration
Chunk(tokens, name, base, close) ==
    [tokens |-> tokens, name |-> name, base |-> base, close |-> close]

ChunkPool ==
    { Chunk(<<"class", "Home", "extends", "StatelessWidget", "{", "\n", "}", "\n">>,
            "Home", "StatelessWidget", 7),
      Chunk(<<"class", "Login", "\n", "extends", "StatefulWidget", "\n", "{", "\n",
              "build", "{", "\n", "}", "\n", "}", "\n">>,
            "Login", "StatefulWidget", 14),
      Chunk(<<"class", "LoginState", "extends", "State<Login>", "{", "\n", "}", "\n">>,
            "LoginState", "State<Login>", 7),
      Chunk(<<"class", "Card", "extends", "StatelessWidget", "{", "}">>,
            "Card", "StatelessWidget", 6),
      Chunk(<<"class", "Page", "extends", "StatefulWidget", "{", "{", "}", "\n",
              "{", "}", "}", "\n">>,
            "Page", "StatefulWidget", 11) }

\* the tokens \w+ matches
WordTokens ==
    {"class", "extends", "build", "Home", "Login", "LoginState", "Card", "Page",
     "StatelessWidget", "StatefulWidget"}

RECURSIVE concat_tokens(_)
concat_tokens(chunks) ==
    IF chunks = << >> THEN << >>
    ELSE Head(chunks).tokens \o concat_tokens(Tail(chunks))

\* content[:upto].count('\n'), upto being the number of tokens before the place
count_newlines(content, upto) == Cardinality({k \in 1..upto : content[k] = "\n"})

\* the first place from k on that holds no line break (\s matched greedily)
RECURSIVE skip_space(_, _)
skip_space(content, k) ==
    IF k <= Len(content) /\ content[k] = "\n" THEN skip_space(content, k + 1) ELSE k

\* lines 96 and 119: the place of the "{" that ends a match of
\* class\s+(\w+)\s+extends\s+<base>\s*\{ starting at place p, or 0
match_end(content, p, base) ==
    LET name_at == skip_space(content, p + 1)
        extends_at == skip_space(content, name_at + 1)
        base_at == skip_space(content, extends_at + 1)
        brace_at == skip_space(content, base_at + 1)
    IN  IF /\ brace_at <= Len(content)
           /\ content[p] = "class"
           /\ content[name_at] \in WordTokens
           /\ content[extends_at] = "extends"
           /\ content[base_at] = base
           /\ content[brace_at] = "{"
        THEN brace_at
        ELSE 0

\* re.finditer: the starts of the matches from place p on, left to right,
\* each search resuming after the previous match
RECURSIVE finditer(_, _, _)
finditer(content, p, base) ==
    IF p > Len(content) THEN << >>
    ELSE IF match_end(content, p, base) # 0
         THEN <<p>> \o finditer(content, match_end(content, p, base) + 1, base)
         ELSE finditer(content, p + 1, base)

\* line 321: no "}" brought the depth back to zero
end_of_text_line(content, start_pos) == count_newlines(content, Len(content)) + 1

\* _find_class_end, lines 312-319: the scan from place i on
RECURSIVE scan_braces(_, _, _, _)
scan_braces(content, i, brace_count, in_class) ==
    IF i > Len(content) THEN end_of_text_line(content, i)
    ELSE IF content[i] = "{" THEN scan_braces(content, i + 1, brace_count + 1, TRUE)
    ELSE IF content[i] = "}"
         THEN (IF in_class /\ brace_count - 1 = 0
               THEN count_newlines(content, i - 1) + 1
               ELSE scan_braces(content, i + 1, brace_count - 1, in_class))
    ELSE scan_braces(content, i + 1, brace_count, in_class)

\* a scan that keeps no depth: the line of the first "}" from the place on
RECURSIVE first_close_line(_, _)
first_close_line(content, i) ==
    IF i > Len(content) THEN count_newlines(content, Len(content)) + 1
    ELSE IF content[i] = "}" THEN count_newlines(content, i - 1) + 1
    ELSE first_close_line(content, i + 1)

\* a scan that runs on to the last "}" of the text
last_close_line(content, start_pos) ==
    LET closes == {i \in start_pos..Len(content) : content[i] = "}"}
    IN  IF closes = {} THEN count_newlines(content, Len(content)) + 1
        ELSE count_newlines(content, (CHOOSE i \in closes : \A j \in closes : j <= i) - 1) + 1

\* _find_class_end, lines 307-321
find_class_end(content, start_pos) == scan_braces(content, start_pos, 0, FALSE)

\* lines 97-114 and 120-137: the record of the match that starts at place p;
\* the header holds no call, so the five lists read from it are empty
widget_record(content, file_path, p, base) ==
    [name |-> content[skip_space(content, p + 1)],
     type |-> base,
     file_path |-> file_path,
     line_start |-> count_newlines(content, p - 1) + 1,
     line_end |-> find_class_end(content, p),
     dependencies |-> << >>, api_calls |-> << >>, navigation_routes |-> << >>,
     form_fields |-> << >>, validators |-> << >>]

\* _extract_widgets, lines 91-139: the StatelessWidget matches, then the
\* StatefulWidget matches
extract_widgets(content, file_path) ==
    LET records(base) ==
            LET starts == finditer(content, 1, base)
            IN  [k \in 1..Len(starts) |-> widget_record(content, file_path, starts[k], base)]
    IN  records("StatelessWidget") \o records("StatefulWidget")

WidgetsInit ==
    /\ ex_input \in SeqsUpTo(ChunkPool, MaxChunks)
    /\ ex_output = << >>
    /\ ex_pc = "called"
    /\ OthersIdle

ExtractWidgets ==
    /\ ex_pc = "called"
    /\ ex_output' = extract_widgets(concat_tokens(ex_input), "lib/a.dart")
    /\ ex_pc' = "returned"
    /\ UNCHANGED <<ex_input, besideExtract>>

SpecWidgets == WidgetsInit /\ [][ExtractWidgets]_vars

\* the line breaks of the text before chunk i, and in chunk i before token k
LinesBefore(i) ==
    Cardinality({pr \in (1..(i - 1)) \X (1..20) :
                    pr[2] <= Len(ex_input[pr[1]].tokens)
                        /\ ex_input[pr[1]].tokens[pr[2]] = "\n"})

LinesWithin(i, k) ==
    Cardinality({j \in 1..(k - 1) : ex_input[i].tokens[j] = "\n"})

\* the declarations of the text that extend one of the two widget bases
WidgetChunks ==
    {i \in 1..Len(ex_input) : ex_input[i].base \in {"StatelessWidget", "StatefulWidget"}}

MaxSites == 3

\* a call expression client.verb(argument): wrapped when the argument is
\* Uri.parse(...), quoted when the innermost argument is a string literal
Site(client, verb, wrapped, quoted, literal) ==
    [client |-> client, verb |-> verb, wrapped |-> wrapped, quoted |-> quoted,
     literal |-> literal]

LineBreak == Site("\n", "", FALSE, FALSE, "")

SitePool ==
    { Site("dio", "get", FALSE, TRUE, "/a"),
      Site("dio", "post", FALSE, TRUE, "/a"),
      Site("dio", "put", FALSE, TRUE, "/b"),
      Site("dio", "delete", FALSE, TRUE, "/b"),
      Site("http", "get", TRUE, TRUE, "/c"),
      Site("http", "post", TRUE, TRUE, "/c"),
      Site("dio", "get", FALSE, FALSE, "url"),
      Site("dio", "patch", FALSE, TRUE, "/a"),
      LineBreak }

\* the text of a call expression up to its innermost argument
site_text(site) ==
    site.client \o "." \o site.verb \o "(" \o (IF site.wrapped THEN "Uri.parse(" ELSE "")

\* [\'"]([^\'"]+)[\'"] as written in the raw pattern strings
quoted_literal ==
    <<"[", "\\", "'", "\"", "]", "(", "[", "^", "\\", "'", "\"", "]", "+", ")",
      "[", "\\", "'", "\"", "]">>

\* lines 188-193
dio_patterns ==
    << <<"d", "i", "o", "\\", ".", "g", "e", "t", "\\", "(">> \o quoted_literal,
       <<"d", "i", "o", "\\", ".", "p", "o", "s", "t", "\\", "(">> \o quoted_literal,
       <<"d", "i", "o", "\\", ".", "p", "u", "t", "\\", "(">> \o quoted_literal,
       <<"d", "i", "o", "\\", ".", "d", "e", "l", "e", "t", "e", "\\", "(">>
           \o quoted_literal >>

\* lines 206-209
http_patterns ==
    << <<"h", "t", "t", "p", "\\", ".", "g", "e", "t", "\\", "(",
         "U", "r", "i", "\\", ".", "p", "a", "r", "s", "e", "\\", "(">> \o quoted_literal,
       <<"h", "t", "t", "p", "\\", ".", "p", "o", "s", "t", "\\", "(",
         "U", "r", "i", "\\", ".", "p", "a", "r", "s", "e", "\\", "(">> \o quoted_literal >>

\* str.split(sep): the pieces between the occurrences of sep
RECURSIVE split_pieces(_, _, _)
split_pieces(chars, sep, piece) ==
    IF chars = << >> THEN <<piece>>
    ELSE IF Head(chars) = sep
         THEN <<piece>> \o split_pieces(Tail(chars), sep, << >>)
         ELSE split_pieces(Tail(chars), sep, Append(piece, Head(chars)))

split(chars, sep) == split_pieces(chars, sep, << >>)

\* the string made of the characters
RECURSIVE join(_)
join(chars) == IF chars = << >> THEN "" ELSE Head(chars) \o join(Tail(chars))

\* lines 199 and 215: pattern.split('\\')[1].split('(')[0]
pattern_method(pattern) == join(split(split(pattern, "\\")[2], "(")[1])

\* the literal text a pattern matches before the quoted literal: its
\* characters up to the first "[", each backslash escaping the next one
RECURSIVE literal_prefix(_)
literal_prefix(pattern) ==
    IF pattern = << >> \/ Head(pattern) = "[" THEN ""
    ELSE IF Head(pattern) = "\\"
         THEN pattern[2] \o literal_prefix(Tail(Tail(pattern)))
         ELSE Head(pattern) \o literal_prefix(Tail(pattern))

\* whether the pattern matches at the item
pattern_matches(pattern, site) ==
    /\ site_text(site) = literal_prefix(pattern)
    /\ site.quoted
    /\ site.literal # ""

\* re.finditer(pattern, content): the places of the matches, left to right
RECURSIVE finditer_calls(_, _, _)
finditer_calls(pattern, content, k) ==
    IF k > Len(content) THEN << >>
    ELSE IF pattern_matches(pattern, content[k])
         THEN <<k>> \o finditer_calls(pattern, content, k + 1)
         ELSE finditer_calls(pattern, content, k + 1)

\* lines 202 and 218: content[:match.start()].count('\n') + 1
line_of(content, k) == Cardinality({j \in 1..(k - 1) : content[j] = LineBreak}) + 1

\* lines 196-203 and 212-219: the records of one pattern
calls_of_pattern(type, pattern, content, file_path) ==
    LET places == finditer_calls(pattern, content, 1)
    IN  [n \in 1..Len(places) |->
            ApiCall(type, pattern_method(pattern), content[places[n]].literal,
                    file_path, line_of(content, places[n]))]

\* lines 195 and 211: the records of a list of patterns, in the list's order
RECURSIVE calls_of_patterns(_, _, _, _)
calls_of_patterns(type, patterns, content, file_path) ==
    IF patterns = << >> THEN << >>
    ELSE calls_of_pattern(type, Head(patterns), content, file_path)
             \o calls_of_patterns(type, Tail(patterns), content, file_path)

\* _extract_api_calls, lines 183-221
extract_api_calls(content, file_path) ==
    calls_of_patterns("dio", dio_patterns, content, file_path)
        \o calls_of_patterns("http", http_patterns, content, file_path)

ApiCallsInit ==
    /\ ex_input \in SeqsUpTo(SitePool, MaxSites)
    /\ ex_output = << >>
    /\ ex_pc = "called"
    /\ OthersIdle

ExtractApiCalls ==
    /\ ex_pc = "called"
    /\ ex_output' = extract_api_calls(ex_input, "lib/a.dart")
    /\ ex_pc' = "returned"
    /\ UNCHANGED <<ex_input, besideExtract>>

SpecApiCalls == ApiCallsInit /\ [][ExtractApiCalls]_vars

\* the outbound client calls of the text: dio.get/post/put/delete and
\* http.get/post through Uri.parse, on a quoted literal
ClientCallSites ==
    {k \in 1..Len(ex_input) :
        /\ ex_input[k].quoted
        /\ \/ /\ ex_input[k].client = "dio"
              /\ ex_input[k].verb \in {"get", "post", "put", "delete"}
              /\ ~ex_input[k].wrapped
           \/ /\ ex_input[k].client = "http"
              /\ ex_input[k].verb \in {"get", "post"}
              /\ ex_input[k].wrapped}

\* the number of records that carry what the call site at place k says
RecordsOfSite(k) ==
    Cardinality({n \in 1..Len(ex_output) :
                    /\ ex_output[n].endpoint = ex_input[k].literal
                    /\ ex_output[n].method = ex_input[k].verb
                    /\ ex_output[n].type = ex_input[k].client})

\* C20: when the extractor has returned, there are as many records as
\* outbound client calls in the text, every call has a record whose method
\* is exactly the verb of the call and whose endpoint is the quoted literal,
\* and every method is one of the bare verb names (so that its upper case is
\* the HTTP method of the route).
C20_MethodIsVerb ==
    ex_pc = "returned" =>
        /\ Len(ex_output) = Cardinality(ClientCallSites)
        /\ \A k \in ClientCallSites : RecordsOfSite(k) >= 1
        /\ \A n \in 1..Len(ex_output) :
              ex_output[n].method \in {"get", "post", "put", "delete"}

\* what remains of C20 without the method: the count and the endpoints
C20_CountAndEndpoints ==
    ex_pc = "returned" =>
        /\ Len(ex_output) = Cardinality(ClientCallSites)
        /\ \A k \in ClientCallSites :
              \E n \in 1..Len(ex_output) :
                 /\ ex_output[n].endpoint = ex_input[k].literal
                 /\ ex_output[n].type = ex_input[k].client

(***************************************************************************)
(* orchestrator.py: AgentOrchestrator.initialize, called by coroutines of  *)
(* one event loop.  A coroutine runs without interruption up to an await   *)
(* that suspends it; init_db suspends on its first database call (line 37  *)
(* of structured_store.py), so other coroutines run between the test of    *)
(* line 33 and the assignment of line 35.                                  *)
(***************************************************************************)
\* every variable but those of initialize
besideInitialize == <<cacheVars, rateVars, writerVars, run, orcVars, batchVars, extractVars,
                      storeVars, gapVars, pipeVars>>

\* lines 33-34: the flag is tested and, when unset, init_db is invoked and
\* the caller suspended
InitializeEnter(c) ==
    /\ init_pc[c] = "idle"
    /\ IF ~initialized
       THEN /\ init_db_calls' = init_db_calls + 1
            /\ init_pc' = [init_pc EXCEPT ![c] = "awaiting"]
       ELSE /\ init_pc' = [init_pc EXCEPT ![c] = "returned"]
            /\ UNCHANGED init_db_calls
    /\ UNCHANGED <<initialized, besideInitialize>>

\* line 35: init_db has completed, the flag is set and initialize returns
InitializeResume(c) ==
    /\ init_pc[c] = "awaiting"
    /\ initialized' = TRUE
    /\ init_pc' = [init_pc EXCEPT ![c] = "returned"]
    /\ UNCHANGED <<init_db_calls, besideInitialize>>

\* the caller goes on (analyze_codebase, handle_change_request, ...) and
\* may call initialize again
InitializeAgain(c) ==
    /\ init_pc[c] = "returned"
    /\ init_pc' = [init_pc EXCEPT ![c] = "idle"]
    /\ UNCHANGED <<initialized, init_db_calls, besideInitialize>>

InitializeInit ==
    /\ InitializeIdle
    /\ CacheIdle
    /\ RateIdle
    /\ WritersIdle /\ run = 1 /\ OrcIdle /\ BatchIdle /\ ExtractIdle
    /\ StoreIdle /\ GapIdle /\ PipeIdle

InitializeNext ==
    \E c \in Callers : InitializeEnter(c) \/ InitializeResume(c) \/ InitializeAgain(c)

SpecInitialize == InitializeInit /\ [][InitializeNext]_vars

\* C21: init_db is never invoked more than once, and once a call of
\* initialize has returned, init_db has been invoked exactly once and
\* `initialized` is true.
C21_InitDbOnce ==
    /\ init_db_calls <= 1
    /\ (\E c \in Callers : init_pc[c] = "returned") =>
           (initialized /\ init_db_calls = 1)

\* what remains of C21 for calls that do not overlap: with no other caller
\* suspended in init_db, a call invokes init_db only when the flag is unset
C21_SequentialCalls ==
    [][\A c \in Callers :
          (/\ init_pc[c] = "idle" /\ init_pc'[c] # "idle"
           /\ \A d \in Callers : init_pc[d] # "awaiting"
           /\ init_db_calls >= 1)
          => init_db_calls' = init_db_calls]_vars

(***************************************************************************)
(* gap_reporter.py: _paths_match as a function of two path strings, and of *)
(* a respelling of the first one.                                          *)
(***************************************************************************)
MaxPathLen == 3

PathChars == {"/", "a", "B"}

PathStrings == SeqsUpTo(PathChars, MaxPathLen)

\* str.swapcase on the characters of the paths
SwapChar(c) ==
    CASE c = "a" -> "A"
      [] c = "B" -> "b"
      [] OTHER -> c

\* the respellings of a path: a "/" added or removed at either end, or the
\* case of its letters changed
Respellings(path) ==
    {<<"/">> \o path, path \o <<"/">>, [k \in 1..Len(path) |-> SwapChar(path[k])]}
        \cup (IF path # << >> /\ Head(path) = "/" THEN {Tail(path)} ELSE {})
        \cup (IF path # << >> /\ path[Len(path)] = "/"
              THEN {SubSeq(path, 1, Len(path) - 1)} ELSE {})

PathsMatchInit ==
    /\ \E a \in PathStrings, b \in PathStrings :
          \E r \in Respellings(a) : ex_input = [a |-> a, b |-> b, respelt |-> r]
    /\ ex_output = << >>
    /\ ex_pc = "called"
    /\ OthersIdle

\* the calls of _paths_match on the two paths in both orders, on the first
\* path and itself, and on the respelling in both positions
CallPathsMatch ==
    /\ ex_pc = "called"
    /\ ex_output' = [ab |-> paths_match(ex_input.a, ex_input.b),
                     ba |-> paths_match(ex_input.b, ex_input.a),
                     aa |-> paths_match(ex_input.a, ex_input.a),
                     rb |-> paths_match(ex_input.respelt, ex_input.b),
                     br |-> paths_match(ex_input.b, ex_input.respelt)]
    /\ ex_pc' = "returned"
    /\ UNCHANGED <<ex_input, besideExtract>>

SpecPathsMatch == PathsMatchInit /\ [][CallPathsMatch]_vars

\* C22: _paths_match gives the same answer in both argument orders, matches
\* every path with itself, and gives the same answer when either argument
\* is respelt with another leading or trailing "/" or another letter case.
C22_SymmetricUnderNormalization ==
    ex_pc = "returned" =>
        /\ ex_output.ab = ex_output.ba
        /\ ex_output.aa
        /\ ex_output.rb = ex_output.ab
        /\ ex_output.br = ex_output.ab

\* C22 witness: a path contained in a longer, different path matches it in
\* both orders, also when respelt.
C22_Witness ==
    /\ ex_pc = "returned"
    /\ ex_input.a = <<"/", "a">>
    /\ ex_input.b = <<"B", "/", "a">>
    /\ ex_input.respelt = <<"/", "A">>
    /\ ex_output.ab /\ ex_output.ba /\ ex_output.rb

(***************************************************************************)
(* The path tests of the linkers of UI calls and backend routes, applied   *)
(* to one pair of paths: MemoryAgent._create_cross_references,             *)
(* AgentOrchestrator._create_api_mappings, AnalyzerAgent._map_api_calls,   *)
(* and the gap reporter's _paths_match.                                    *)
(***************************************************************************)
\* analyzer_agent.py, AnalyzerAgent._endpoints_match, lines 447-454
endpoints_match(flutter_endpoint, python_endpoint) ==
    LET flutter_clean == lower(strip_slash(flutter_endpoint))
        python_clean == lower(strip_slash(python_endpoint))
    IN  str_in(flutter_clean, python_clean) \/ str_in(python_clean, flutter_clean)

LinkersInit ==
    /\ ex_input \in {[api_call |-> [endpoint |-> ui], endpoint |-> [path |-> route]] :
                        ui \in PathStrings, route \in PathStrings}
    /\ ex_output = << >>
    /\ ex_pc = "called"
    /\ OthersIdle

\* each linker's path test on the pair (memory_agent.py line 431,
\* orchestrator.py line 265, analyzer_agent.py line 220), and _paths_match
LinkPair ==
    /\ ex_pc = "called"
    /\ ex_output' =
          [cross_references |-> cross_reference_match(ex_input.api_call, ex_input.endpoint),
           api_mappings |-> api_mapping_match(ex_input.api_call, ex_input.endpoint),
           map_api_calls |-> endpoints_match(ex_input.api_call.endpoint,
                                             ex_input.endpoint.path),
           gap_report |-> paths_match(ex_input.api_call.endpoint, ex_input.endpoint.path)]
    /\ ex_pc' = "returned"
    /\ UNCHANGED <<ex_input, besideExtract>>

SpecLinkers == LinkersInit /\ [][LinkPair]_vars

\* C23: for every pair of a UI call path and a route path, the three
\* linkers and the gap reporter's _paths_match give the same answer.
C23_LinkersAgree ==
    ex_pc = "returned" =>
        /\ ex_output.cross_references = ex_output.gap_report
        /\ ex_output.api_mappings = ex_output.gap_report
        /\ ex_output.map_api_calls = ex_output.gap_report

\* what remains of C23 without the orchestrator: the two linkers that
\* normalize agree with _paths_match
C23_NormalizingLinkersAgree ==
    ex_pc = "returned" =>
        /\ ex_output.cross_references = ex_output.gap_report
        /\ ex_output.map_api_calls = ex_output.gap_report

(***************************************************************************)
(* flutter_analyzer.py: FlutterAnalyzer._find_class_end on the text that   *)
(* follows a declaration, balanced or not.                                 *)
(***************************************************************************)
MaxTail == 6

\* what may stand before the declaration
TextsBefore == {<< >>, <<"\n">>, <<"}", "\n", "\n">>}

\* the header the patterns of _extract_widgets match
DeclarationHeader == <<"class", "Home", "extends", "StatelessWidget", "{">>

ClassEndInit ==
    /\ ex_input \in {[content |-> before \o DeclarationHeader \o tail,
                      start_pos |-> Len(before) + 1] :
                        before \in TextsBefore,
                        tail \in SeqsUpTo({"{", "}", "\n", "build"}, MaxTail)}
    /\ ex_output = << >>
    /\ ex_pc = "called"
    /\ OthersIdle

\* line 102: end_line = self._find_class_end(content, match.start())
CallFindClassEnd ==
    /\ ex_pc = "called"
    /\ ex_output' = find_class_end(ex_input.content, ex_input.start_pos)
    /\ ex_pc' = "returned"
    /\ UNCHANGED <<ex_input, besideExtract>>

SpecClassEnd == ClassEndInit /\ [][CallFindClassEnd]_vars

\* the number of "{" less the number of "}" among the tokens from..upto
DepthOver(from, upto) ==
    Cardinality({i \in from..upto : ex_input.content[i] = "{"})
        - Cardinality({i \in from..upto : ex_input.content[i] = "}"})

\* the places of the "}" that bring the depth opened at the declaration
\* back to zero
ClosingPlaces ==
    {i \in ex_input.start_pos..Len(ex_input.content) :
        /\ ex_input.content[i] = "}"
        /\ DepthOver(ex_input.start_pos, i) = 0}

LineAt(i) == Cardinality({j \in 1..(i - 1) : ex_input.content[j] = "\n"}) + 1

\* C24: _find_class_end returns the line of the first "}" at which the
\* depth opened by the declaration is back to zero, and the line of the end
\* of the text when there is no such "}".
C24_FirstBalancedClose ==
    ex_pc = "returned" =>
        IF ClosingPlaces = {}
        THEN ex_output = LineAt(Len(ex_input.content) + 1)
        ELSE \E i \in ClosingPlaces :
                /\ \A j \in ClosingPlaces : i <= j
                /\ ex_output = LineAt(i)

\* C24 witness: the declaration closes after a nested pair of braces, on a
\* line that is neither the line of an earlier "}" nor of a later one.
C24_Witness ==
    /\ ex_pc = "returned"
    /\ ex_input.content = <<"}", "\n", "\n">> \o DeclarationHeader
                              \o <<"{", "}", "\n", "}", "\n", "}">>
    /\ ex_output = 4

\* C24 witness of the fallback: the braces never balance and the line of
\* the end of the text is returned.
C24_WitnessUnbalanced ==
    /\ ex_pc = "returned"
    /\ ClosingPlaces = {}
    /\ \E i \in 1..Len(ex_input.content) : i > ex_input.start_pos /\ ex_input.content[i] = "}"
    /\ ex_output = LineAt(Len(ex_input.content) + 1)
    /\ ex_output > 1

(***************************************************************************)
(* flutter_analyzer.py: the dependencies of a widget record.  The text of  *)
(* a widget is a sequence of items: an identifier, kept character by       *)
(* character, with what follows it ("(" for a call, ".of(context)" for an  *)
(* access through the context, nothing otherwise), or a brace.             *)
(***************************************************************************)
MaxItems == 3

Item(word, follow) == [word |-> word, follow |-> follow]

W_Text == <<"T", "e", "x", "t">>
W_MyBtn == <<"M", "y", "B", "t", "n">>
W_Theme == <<"T", "h", "e", "m", "e">>
W_if == <<"i", "f">>
W_for == <<"f", "o", "r">>
W_build == <<"b", "u", "i", "l", "d">>

ItemPool ==
    { Item(W_Text, "("), Item(W_MyBtn, "("), Item(W_Theme, ".of(context)"),
      Item(W_if, "("), Item(W_for, "("), Item(W_build, "("), Item(W_Text, "") }

\* class Home extends StatelessWidget {
HeaderItems ==
    << Item(<<"c", "l", "a", "s", "s">>, ""), Item(<<"H", "o", "m", "e">>, ""),
       Item(<<"e", "x", "t", "e", "n", "d", "s">>, ""),
       Item(<<"S", "t", "a", "t", "e", "l", "e", "s", "s", "W", "i", "d", "g", "e", "t">>, ""),
       Item(<< >>, "{") >>

widget_text(body) == HeaderItems \o body \o <<Item(<< >>, "}")>>

UpperLetters ==
    {"A", "B", "C", "D", "E", "F", "G", "H", "I", "J", "K", "L", "M", "N", "O", "P",
     "Q", "R", "S", "T", "U", "V", "W", "X", "Y", "Z"}

LowerLetters ==
    {"a", "b", "c", "d", "e", "f", "g", "h", "i", "j", "k", "l", "m", "n", "o", "p",
     "q", "r", "s", "t", "u", "v", "w", "x", "y", "z"}

\* str.istitle: an upper-case letter only after a character without case,
\* a lower-case letter only after a letter, and at least one letter
RECURSIVE title_scan(_, _, _)
title_scan(word, previous_is_cased, cased) ==
    IF word = << >> THEN cased
    ELSE IF Head(word) \in UpperLetters
         THEN ~previous_is_cased /\ title_scan(Tail(word), TRUE, TRUE)
    ELSE IF Head(word) \in LowerLetters
         THEN previous_is_cased /\ title_scan(Tail(word), TRUE, TRUE)
    ELSE title_scan(Tail(word), FALSE, cased)

istitle(word) == title_scan(word, FALSE, FALSE)

\* line 338: the four excluded words
ControlFlowWords ==
    { W_if, W_for, <<"w", "h", "i", "l", "e">>, <<"r", "e", "t", "u", "r", "n">> }

\* _extract_widget_dependencies, lines 323-340: the words of
\* content[start:end] that one of the two patterns captures and line 338
\* keeps, as a set (line 340); `end` is the place after the slice
extract_widget_dependencies(content, start, end) ==
    LET widget_content == SubSeq(content, start, end - 1)
        captured == {widget_content[k].word :
                        k \in {j \in 1..Len(widget_content) :
                                  widget_content[j].follow \in {"(", ".of(context)"}}}
    IN  {dep \in captured : dep \notin ControlFlowWords /\ istitle(dep)}

DependenciesInit ==
    /\ ex_input \in {widget_text(body) : body \in SeqsUpTo(ItemPool, MaxItems)}
    /\ ex_output = << >>
    /\ ex_pc = "called"
    /\ OthersIdle

\* _extract_widgets, lines 97-116: the match of the header starts at the
\* first item and ends after the "{"; line 109 passes match.start() and
\* match.end() to _extract_widget_dependencies
ExtractDependencies ==
    /\ ex_pc = "called"
    /\ ex_output' = [name |-> ex_input[2].word,
                     dependencies |->
                         extract_widget_dependencies(ex_input, 1, Len(HeaderItems) + 1)]
    /\ ex_pc' = "returned"
    /\ UNCHANGED <<ex_input, besideExtract>>

SpecDependencies == DependenciesInit /\ [][ExtractDependencies]_vars

\* the identifiers of the span, from the declaration to its closing brace,
\* that start with a capital letter and are followed by a call or by
\* .of(context)
CapitalizedCalls ==
    {ex_input[k].word :
        k \in {j \in 1..Len(ex_input) :
                  /\ ex_input[j].follow \in {"(", ".of(context)"}
                  /\ ex_input[j].word # << >>
                  /\ ex_input[j].word[1] \in UpperLetters}}

\* C25: the dependencies of a widget record hold every capitalized
\* identifier of the widget's span that is followed by a call or by
\* .of(context), and none of if, for, while and return.
C25_DependenciesOfSpan ==
    ex_pc = "returned" =>
        /\ CapitalizedCalls \subseteq ex_output.dependencies
        /\ ex_output.dependencies \cap {W_if, W_for} = {}

\* beside C25: applied to the whole span, the extractor finds the names
\* that str.istitle accepts (Text, Theme) and never a CamelCase name
C25_WholeSpanTitleCaseOnly ==
    ex_pc = "returned" =>
        extract_widget_dependencies(ex_input, 1, Len(ex_input) + 1)
            = CapitalizedCalls \ {W_MyBtn}

(***************************************************************************)
(* python_analyzer.py: PythonAnalyzer._extract_service_functions on a      *)
(* parsed module.  A call statement x.attr(...) in a body is a node of     *)
(* kind "Call" whose name holds func.attr.  A list built by list(set(...)) *)
(* is kept as the number of times each value occurs in it.                 *)
(***************************************************************************)
MaxStatements == 3

CallStmt(attr, lineno) == Def("Call", attr, lineno, << >>, << >>)

StatementPool ==
    { Def("FunctionDef", "load", 3, << >>,
          <<CallStmt("query", 4), CallStmt("query", 5), CallStmt("get", 6)>>),
      Def("FunctionDef", "_helper", 8, << >>, << >>),
      Def("ClassDef", "Repo", 10, << >>,
          <<Def("FunctionDef", "save", 11, << >>,
                <<CallStmt("add", 12),
                  Def("FunctionDef", "on_saved", 13, << >>, << >>)>>)>>),
      Def("FunctionDef", "outer", 15, << >>,
          <<Def("FunctionDef", "inner", 16, << >>, <<CallStmt("commit", 17)>>)>>),
      Def("AsyncFunctionDef", "fetch", 19, << >>, <<CallStmt("post", 20)>>),
      Def("FunctionDef", "ping", 22, << >>, << >>),
      Def("ClassDef", "Empty", 25, << >>, << >>),
      Def("FunctionDef", "sync_all", 27, << >>, <<CallStmt("delete", 28)>>) }

\* the modules: their statements stand in the order of their lines
Modules ==
    {Module(body) : body \in {q \in DistinctSeqs(StatementPool, MaxStatements) :
                                \A i, j \in 1..Len(q) : i < j => q[i].lineno < q[j].lineno}}

\* str.startswith('_') on the names of the pool
startswith_underscore(name) ==
    \E rest \in {"helper", "load", "save", "on_saved", "outer", "inner", "fetch",
                 "query", "get", "add", "commit", "post", "Repo", "ping", "Empty",
                 "sync_all", "delete", ""} :
        name = "_" \o rest

\* line 167: any(isinstance(parent, ast.ClassDef) for parent in ast.walk(tree)
\*               if hasattr(parent, 'body') and node in parent.body)
in_class_body(tree, node) ==
    \E k \in 1..Len(walk(tree)) :
        /\ walk(tree)[k].kind = "ClassDef"
        /\ \E i \in 1..Len(walk(tree)[k].body) : walk(tree)[k].body[i] = node

\* list(set(...)) of the attribute names of the calls under the node that
\* are among the verbs: one occurrence of each
verbs_called(node, verbs) ==
    LET found == {walk(node)[k].name :
                     k \in {j \in 1..Len(walk(node)) : walk(node)[j].kind = "Call"}}
    IN  [verb \in found \cap verbs |-> 1]

\* _extract_db_operations, lines 379-389
extract_db_operations(node) ==
    verbs_called(node, {"query", "add", "commit", "delete", "update", "filter", "join"})

\* _extract_external_calls, lines 391-401
extract_external_calls(node) ==
    verbs_called(node, {"get", "post", "put", "delete", "request"})

\* lines 168-176
service_record(node) ==
    [name |-> node.name, line_number |-> node.lineno,
     database_operations |-> extract_db_operations(node),
     external_calls |-> extract_external_calls(node)]

\* lines 164-177: the loop over the walked nodes
RECURSIVE services_of(_, _)
services_of(tree, nodes) ==
    IF nodes = << >> THEN << >>
    ELSE (IF /\ is_function_def(Head(nodes))
             /\ ~startswith_underscore(Head(nodes).name)
             /\ ~in_class_body(tree, Head(nodes))
          THEN <<service_record(Head(nodes))>> ELSE << >>)
             \o services_of(tree, Tail(nodes))

\* _extract_service_functions, lines 160-179
extract_service_functions(tree) == services_of(tree, walk(tree))

ServicesInit ==
    /\ ex_input \in Modules
    /\ ex_output = << >>
    /\ ex_pc = "called"
    /\ OthersIdle

ExtractServices ==
    /\ ex_pc = "called"
    /\ ex_output' = extract_service_functions(ex_input)
    /\ ex_pc' = "returned"
    /\ UNCHANGED <<ex_input, besideExtract>>

SpecServices == ServicesInit /\ [][ExtractServices]_vars

\* the functions defined at module level whose name is not private, by line
TopLevelPublicLines ==
    {ex_input.body[i].lineno :
        i \in {j \in 1..Len(ex_input.body) :
                  /\ ex_input.body[j].kind \in {"FunctionDef", "AsyncFunctionDef"}
                  /\ ex_input.body[j].name \notin {"_helper"}}}

\* each verb of the two lists of a record occurs once
VerbsOnce(record) ==
    /\ \A verb \in DOMAIN record.database_operations : record.database_operations[verb] <= 1
    /\ \A verb \in DOMAIN record.external_calls : record.external_calls[verb] <= 1

\* C26: the functions reported as service functions are the module-level
\* functions whose name does not start with "_", each once, and no method
\* and no nested function; the two verb lists of a record hold each verb at
\* most once.
C26_ServiceIffTopLevelPublic ==
    ex_pc = "returned" =>
        /\ {ex_output[k].line_number : k \in 1..Len(ex_output)} = TopLevelPublicLines
        /\ Len(ex_output) = Cardinality(TopLevelPublicLines)
        /\ \A k \in 1..Len(ex_output) : VerbsOnce(ex_output[k])

\* what remains of C26: private functions and methods are never reported,
\* and each verb is listed once
C26_PrivateAndMethodsSkipped ==
    ex_pc = "returned" =>
        \A k \in 1..Len(ex_output) :
           /\ ex_output[k].name \notin {"_helper", "save"}
           /\ VerbsOnce(ex_output[k])

(***************************************************************************)
(* analyzer_agent.py: AnalyzerAgent.analyze_project_incremental.  The two  *)
(* dicts are functions on the project paths stored so far; the results of  *)
(* a full analysis are identified by the number of the run that made them. *)
(***************************************************************************)
MaxSeconds == 90000
MaxAnalyses == 2

ProjectPaths == {"/srv/app", "/srv/web"}

\* the steps by which the wall clock is seen to advance
ClockSteps == {3600, 86400}

\* timedelta.seconds: the seconds of the difference beyond its whole days
timedelta_seconds(delta) == delta % 86400

\* line 30: (datetime.now() - last_analysis).seconds < 3600
is_fresh(last_analysis) == timedelta_seconds(clock - last_analysis) < 3600

\* d[key] = value on a dict
dict_set(d, key, value) ==
    [k \in DOMAIN d \cup {key} |-> IF k = key THEN value ELSE d[k]]

\* every variable but those of the analysis cache
besideCache == <<initialized, init_db_calls, init_pc, rateVars, writerVars, run, orcVars,
                 batchVars, extractVars, storeVars, gapVars, pipeVars>>

AdvanceClock ==
    /\ \E step \in ClockSteps : clock + step <= MaxSeconds /\ clock' = clock + step
    /\ UNCHANGED <<analysis_cache, last_analysis_time, full_runs, an_call, besideCache>>

\* analyze_project_incremental(project_path, force_refresh), lines 22-40
AnalyzeProjectIncremental(project_path, force_refresh) ==
    LET stored == project_path \in DOMAIN analysis_cache
        age == IF project_path \in DOMAIN last_analysis_time
               THEN clock - last_analysis_time[project_path] ELSE -1
    IN  IF /\ ~force_refresh
           /\ stored
           /\ project_path \in DOMAIN last_analysis_time
           /\ is_fresh(last_analysis_time[project_path])
        THEN /\ an_call' = [project_path |-> project_path, force_refresh |-> force_refresh,
                            age |-> age, full |-> FALSE,
                            returned |-> analysis_cache[project_path]]
             /\ UNCHANGED <<analysis_cache, last_analysis_time, full_runs>>
        ELSE /\ full_runs < MaxAnalyses
             /\ full_runs' = full_runs + 1
             /\ analysis_cache' = dict_set(analysis_cache, project_path, full_runs + 1)
             /\ last_analysis_time' = dict_set(last_analysis_time, project_path, clock)
             /\ an_call' = [project_path |-> project_path, force_refresh |-> force_refresh,
                            age |-> age, full |-> TRUE,
                            returned |-> full_runs + 1]

CallAnalyzeProjectIncremental ==
    /\ \E project_path \in ProjectPaths, force_refresh \in BOOLEAN :
          AnalyzeProjectIncremental(project_path, force_refresh)
    /\ UNCHANGED <<clock, besideCache>>

CacheInit ==
    /\ CacheIdle
    /\ InitializeIdle
    /\ RateIdle
    /\ WritersIdle /\ run = 1 /\ OrcIdle /\ BatchIdle /\ ExtractIdle
    /\ StoreIdle /\ GapIdle /\ PipeIdle

CacheNext == AdvanceClock \/ CallAnalyzeProjectIncremental

SpecCache == CacheInit /\ [][CacheNext]_vars

\* C27: a call returns the cached results only if force_refresh is false
\* and the entry was stored less than 3600 seconds before the call; in every
\* other case, however old the entry, a full analysis runs.
C27_CachedOnlyWhenFresh ==
    an_call.project_path # "" =>
        (~an_call.full <=>
            (~an_call.force_refresh /\ an_call.age >= 0 /\ an_call.age < 3600))

\* beside C27: a full analysis replaces the entry and its timestamp, and a
\* forced or first call always runs one
C27_FullRunReplacesEntry ==
    [][\A p \in ProjectPaths :
          (an_call' # an_call /\ an_call'.project_path = p /\ an_call'.full)
          => /\ analysis_cache'[p] = an_call'.returned
             /\ last_analysis_time'[p] = clock
             /\ full_runs' = full_runs + 1]_vars

(***************************************************************************)
(* api/middleware/auth.py: AuthMiddleware.dispatch on one request.  A path *)
(* is the sequence of its "/" and its segments; an Authorization header is *)
(* the sequence of its words, which single blanks separate, and None when  *)
(* the request has none.                                                   *)
(***************************************************************************)
\* lines 15-25
PUBLIC_PATHS ==
    << <<"/", "docs">>,
       <<"/", "redoc">>,
       <<"/", "openapi.json">>,
       <<"/", "api", "/", "v1", "/", "auth", "/", "send-otp">>,
       <<"/", "api", "/", "v1", "/", "auth", "/", "verify-otp">>,
       <<"/", "api", "/", "v1", "/", "auth", "/", "login">>,
       <<"/", "api", "/", "v1", "/", "auth", "/", "refresh-token">>,
       <<"/", "health">>,
       <<"/">> >>

\* the list without its last entry, the root page
public_paths_without_root == SubSeq(PUBLIC_PATHS, 1, Len(PUBLIC_PATHS) - 1)

RequestPaths ==
    { <<"/">>, <<"/", "docs">>, <<"/", "docs", "/", "oauth2-redirect">>, <<"/", "redoc">>,
      <<"/", "openapi.json">>, <<"/", "health">>,
      <<"/", "api", "/", "v1", "/", "auth", "/", "login">>,
      <<"/", "api", "/", "v1", "/", "auth", "/", "send-otp">>,
      <<"/", "api", "/", "v1", "/", "accounts", "/", "7">>,
      <<"/", "api", "/", "v1", "/", "gap-report">> }

None == <<"None">>

AuthorizationHeaders ==
    { None, <<"Bearer", "signed">>, <<"Bearer", "expired">>, <<"Bearer">>,
      <<"Basic", "signed">>, <<"bearer", "signed">> }

\* str.startswith on sequences
startswith(text, prefix) ==
    Len(prefix) <= Len(text) /\ SubSeq(text, 1, Len(prefix)) = prefix

\* lines 46-65: jwt.decode succeeds on a token signed with the key and not
\* expired, and raises JWTError on any other
jwt_decode_ok(token) == token = "signed"

\* dispatch, lines 27-67, with the list of public paths as a parameter: the
\* status of the response, and whether call_next was invoked
dispatch_with(public_paths, request) ==
    IF \E k \in 1..Len(public_paths) : startswith(request.path, public_paths[k])
    THEN [status_code |-> 200, call_next |-> TRUE]
    ELSE IF \/ request.authorization = None
            \/ ~(Len(request.authorization) >= 2 /\ request.authorization[1] = "Bearer")
         THEN [status_code |-> 401, call_next |-> FALSE]
    ELSE IF ~jwt_decode_ok(request.authorization[2])
         THEN [status_code |-> 401, call_next |-> FALSE]
    ELSE [status_code |-> 200, call_next |-> TRUE]

\* AuthMiddleware.dispatch, lines 27-67
dispatch(request) == dispatch_with(PUBLIC_PATHS, request)

AuthInit ==
    /\ ex_input \in [path : RequestPaths, authorization : AuthorizationHeaders]
    /\ ex_output = << >>
    /\ ex_pc = "called"
    /\ OthersIdle

AuthDispatch ==
    /\ ex_pc = "called"
    /\ ex_output' = dispatch(ex_input)
    /\ ex_pc' = "returned"
    /\ UNCHANGED <<ex_input, besideExtract>>

SpecAuth == AuthInit /\ [][AuthDispatch]_vars

\* the request is for the root page or for something under one of the
\* other listed public endpoints
IsPublicRequest ==
    \/ ex_input.path = <<"/">>
    \/ \E segment \in {"docs", "redoc", "openapi.json", "health"} :
          Len(ex_input.path) >= 2 /\ ex_input.path[2] = segment
    \/ /\ Len(ex_input.path) >= 8
       /\ SubSeq(ex_input.path, 1, 7) = <<"/", "api", "/", "v1", "/", "auth", "/">>
       /\ ex_input.path[8] \in {"send-otp", "verify-otp", "login", "refresh-token"}

CarriesValidBearer == ex_input.authorization = <<"Bearer", "signed">>

\* C28: a request that is not for a public endpoint and carries no header
\* "Bearer <valid JWT>" is answered 401 and never reaches the handler.
C28_ProtectedNeedsToken ==
    (ex_pc = "returned" /\ ~IsPublicRequest /\ ~CarriesValidBearer) =>
        (ex_output.status_code = 401 /\ ~ex_output.call_next)

\* beside C28: with "/" taken off the list, the same requests are refused
C28_HoldsWithoutRootEntry ==
    (ex_pc = "returned" /\ ~IsPublicRequest /\ ~CarriesValidBearer) =>
        LET response == dispatch_with(public_paths_without_root, ex_input)
        IN  response.status_code = 401 /\ ~response.call_next

(***************************************************************************)
(* api/middleware/rate_limit.py: RateLimitMiddleware.dispatch.  Lines      *)
(* 25-47 hold no await between the acquisition of the lock and its         *)
(* release, and line 49 follows the release at once, so the requests of    *)
(* the event loop pass through them one at a time, in any order.  Times    *)
(* are whole seconds.                                                      *)
(***************************************************************************)
\* settings.RATE_LIMIT_PER_MINUTE (config.py line 27 sets 60), taken small
RATE_LIMIT_PER_MINUTE == 2
MaxRateSeconds == 120
MaxRequests == 5

\* line 18
window == 60

\* the steps by which datetime.now() is seen to advance between requests
RateClockSteps == {29, 31}

\* every variable but those of the rate limiter and the clock
besideRate == <<initialized, init_db_calls, init_pc, analysis_cache, last_analysis_time,
                full_runs, an_call, writerVars, run, orcVars, batchVars, extractVars,
                storeVars, gapVars, pipeVars>>

\* lines 30-33: the timestamps after window_start, in their order
RECURSIVE clean_old(_, _)
clean_old(timestamps, window_start) ==
    IF timestamps = << >> THEN << >>
    ELSE (IF Head(timestamps) > window_start THEN <<Head(timestamps)>> ELSE << >>)
             \o clean_old(Tail(timestamps), window_start)

\* a test that lets one more request through
over_limit_by_one(timestamps) == Len(timestamps) > RATE_LIMIT_PER_MINUTE

\* line 36: len(self.requests[client_ip]) >= self.rate_limit
over_limit(timestamps) == Len(timestamps) >= RATE_LIMIT_PER_MINUTE

RateClockAdvance ==
    /\ \E step \in RateClockSteps : clock + step <= MaxRateSeconds /\ clock' = clock + step
    /\ UNCHANGED <<rateVars, besideRate>>

\* dispatch, lines 22-50, for a request of the client: the list is cleaned,
\* then the request is refused with 429 or recorded and passed to call_next
RateDispatch(client_ip) ==
    LET kept == clean_old(requests[client_ip], clock - window)
    IN  /\ Len(handled) < MaxRequests
        /\ IF over_limit(kept)
           THEN /\ requests' = [requests EXCEPT ![client_ip] = kept]
                /\ rl_response' = [client_ip |-> client_ip, status_code |-> 429]
                /\ UNCHANGED handled
           ELSE /\ requests' = [requests EXCEPT ![client_ip] = Append(kept, clock)]
                /\ handled' = Append(handled, [client_ip |-> client_ip, at |-> clock])
                /\ rl_response' = [client_ip |-> client_ip, status_code |-> 200]
        /\ UNCHANGED <<clock, besideRate>>

RateInit ==
    /\ RateIdle
    /\ CacheIdle
    /\ InitializeIdle
    /\ WritersIdle /\ run = 1 /\ OrcIdle /\ BatchIdle /\ ExtractIdle
    /\ StoreIdle /\ GapIdle /\ PipeIdle

RateNext == RateClockAdvance \/ \E client_ip \in ClientIps : RateDispatch(client_ip)

SpecRate == RateInit /\ [][RateNext]_vars

\* the requests of the client passed to the handler in the 60 seconds that
\* end at time t
PassedInWindow(client_ip, t) ==
    Cardinality({k \in 1..Len(handled) :
                    /\ handled[k].client_ip = client_ip
                    /\ handled[k].at > t - 60
                    /\ handled[k].at <= t})

\* the timestamps of the client's list that lie in the window ending now
ListedInWindow(client_ip) ==
    Cardinality({k \in 1..Len(requests[client_ip]) : requests[client_ip][k] > clock - 60})

\* C29: in every window of 60 seconds at most RATE_LIMIT_PER_MINUTE requests
\* of one client are passed to the handler, and the client's list holds at
\* most that many timestamps inside the window; a refused request adds no
\* timestamp; a request changes no other client's list.
C29_AtMostLimitPerWindow ==
    /\ [](\A ip \in ClientIps :
            /\ ListedInWindow(ip) <= RATE_LIMIT_PER_MINUTE
            /\ \A t \in 0..MaxRateSeconds : PassedInWindow(ip, t) <= RATE_LIMIT_PER_MINUTE)
    /\ [][(rl_response' # rl_response \/ requests' # requests) =>
            /\ \A ip \in ClientIps \ {rl_response'.client_ip} : requests'[ip] = requests[ip]
            /\ rl_response'.status_code = 429 =>
                  /\ handled' = handled
                  /\ \A k \in 1..Len(requests'[rl_response'.client_ip]) :
                        requests'[rl_response'.client_ip][k] # clock
                           \/ \E j \in 1..Len(requests[rl_response'.client_ip]) :
                                 requests[rl_response'.client_ip][j] = clock]_vars

\* C29 witness: a client is refused with 429 while its quota of the window
\* is used up, after an earlier window of its own has passed and while the
\* other client has been served.
C29_Witness ==
    /\ rl_response = [client_ip |-> "10.0.0.1", status_code |-> 429]
    /\ PassedInWindow("10.0.0.1", clock) = RATE_LIMIT_PER_MINUTE
    /\ PassedInWindow("10.0.0.1", 0) >= 1
    /\ clock >= 60
    /\ PassedInWindow("unknown", clock) >= 1

(***************************************************************************)
(* compute_gap_report over contracts whose path is empty or "/".           *)
(* parse_api_excel (ingestion/parser.py lines 100-104) strips blanks only, *)
(* so both spellings reach the report.                                     *)
(***************************************************************************)
P_empty == << >>

RootContractPool ==
    { [attr |-> "metadata", path |-> P_slash, method |-> "GET"],
      [attr |-> "metadata", path |-> P_empty, method |-> "delete"],
      [attr |-> "meta", path |-> P_slash, method |-> "GET"],
      [attr |-> "metadata", path |-> P_c, method |-> "GET"] }

GapRootInit ==
    /\ api_contracts \in SeqsUpTo(RootContractPool, MaxContracts)
    /\ backend_endpoints \in SeqsUpTo(EndpointPool, MaxEndpoints)
    /\ flutter_calls \in SeqsUpTo(CallPool, MaxCalls)
    /\ backend_by_path = << >>
    /\ missing_backend = << >>
    /\ method_mismatches = << >>
    /\ contracts_not_used_in_flutter = << >>
    /\ backend_without_contract = << >>
    /\ gap_pc = "index"
    /\ gap_i = 0
    /\ StoreIdle
    /\ PipeIdle
    /\ ExtraIdle

SpecGapRoot == GapRootInit /\ [][GapNext]_vars

\* the path of contract i is empty once its slashes are stripped
IsRootContract(i) == \A k \in 1..Len(CPath(i)) : CPath(i)[k] = "/"

\* some backend route has the method of contract i
RouteWithMethod(i) ==
    \E k \in 1..Len(backend_endpoints) : upper(backend_endpoints[k].method) = CMethod(i)

\* C30: a processed contract whose path is empty or only "/" is not listed as
\* unused when a UI call exists, is not listed as missing or mismatched when
\* a backend route has its method, and every processed backend route with
\* its method is left out of backend_without_contract.
C30_RootContractMatchesAll ==
    \A i \in 1..ContractsProcessed :
        IsRootContract(i) =>
            /\ flutter_calls # << >> => NotUsedEntries(i) = 0
            /\ RouteWithMethod(i) => MissingEntries(i) = 0 /\ MismatchEntries(i) = 0
            /\ \A k \in 1..EndpointsProcessed :
                  upper(backend_endpoints[k].method) = CMethod(i) =>
                      WithoutContractEntries(k) = 0

\* beside C30: the same holds of the contracts that carry `.metadata`, and
\* the first two parts hold of every contract.
C30_HoldsForMetadataContracts ==
    \A i \in 1..ContractsProcessed :
        IsRootContract(i) =>
            /\ flutter_calls # << >> => NotUsedEntries(i) = 0
            /\ RouteWithMethod(i) => MissingEntries(i) = 0 /\ MismatchEntries(i) = 0
            /\ api_contracts[i].attr = "metadata" =>
                  \A k \in 1..EndpointsProcessed :
                      upper(backend_endpoints[k].method) = CMethod(i) =>
                          WithoutContractEntries(k) = 0

\* beside C30: a finished report in which a root contract with a route of
\* its method and a UI call is in none of the four lists' way.
C30_RootCase ==
    /\ gap_pc = "done"
    /\ \E i \in 1..Len(api_contracts) :
          /\ IsRootContract(i) /\ api_contracts[i].attr = "metadata"
          /\ RouteWithMethod(i) /\ flutter_calls # << >>
          /\ CPath(i) = P_empty
    /\ backend_without_contract # << >>
====
